---- MODULE Spec2Model ----
(***************************************************************************)
(* Connection manager of the BME68X Environmental Sensing Profile          *)
(* (lib/bme68x-esp/src/bme68x_esp_gap.c): the state record                 *)
(* (flags, conn_avail), the state_lock semaphore, the message queue fed by *)
(* the Bluetooth connection callbacks, the consumer thread                  *)
(* conn_mgr_msgq_recv and the synchronous API bme68x_esp_gap_adv_start.    *)
(*                                                                         *)
(* The Bluetooth stack is the environment: its callbacks (connected,       *)
(* disconnected, recycled) may fire in any order once registered, and      *)
(* bt_le_adv_start may succeed or fail at every invocation.                *)
(* k_msgq_get returning -ENOMSG and k_sem_take(K_FOREVER) failing need a   *)
(* k_msgq_purge / k_sem_reset, which nothing in the repository calls.      *)
(*                                                                         *)
(* Environmental Sensing Service (lib/bme68x-esp/src/bme68x_ess.c), one    *)
(* characteristic at a time: the value updates bme68x_ess_update_*, the    *)
(* write callback of the ES Trigger Setting descriptor, the CCC callback   *)
(* and the fixed-interval timer (SpecEss). The updater and the write       *)
(* callback are interleaved access by access; the CCC callback and the     *)
(* write callback run on the same work queue, one after the other.         *)
(*                                                                         *)
(* BSEC control loop bme68x_iaq_run (lib/bme68x-iaq/src/bme68x_iaq.c),     *)
(* with the statuses of BSEC and of the BME68X Sensor API as inputs        *)
(* (SpecIaq).                                                              *)
(*                                                                         *)
(* BSEC state in NVS (lib/bme68x-iaq/src/bme68x_iaq_nvs.c): the elements   *)
(* STATE_LEN and STATE_BLOB, one call of read_state, write_state or        *)
(* delete_state at a time, access by access, with the outcomes of          *)
(* nvs_read, nvs_write and nvs_delete as inputs (SpecNvs).                 *)
(***************************************************************************)
EXTENDS Integers, Sequences, FiniteSets, TLC

(* ------------------------------ bounds --------------------------------- *)
\* Largest CONFIG_BT_MAX_CONN explored (the Kconfig value is chosen in Init).
MaxConnCfg == 1
\* Application threads calling bme68x_esp_gap_adv_start besides thread 0,
\* the thread that runs bme68x_esp_gap_init.
NumCallers == 0
\* Connection callbacks fired by the Bluetooth stack over a run.
MaxEvents == 1
\* Connection objects (struct bt_conn) the Bluetooth stack hands to the
\* callbacks.
NumPeers == 1
\* Largest CONFIG_BT_MAX_CONN explored from an initialised manager (SpecWorker).
WorkerMaxConn == 2
\* Connection callbacks fired over a run of SpecWorker.
WorkerMaxEvents == 3
\* Write requests to an ES Trigger Setting descriptor over a run of SpecEss.
EssMaxWrites == 1
\* Largest operand of an ES Trigger Setting (Kconfig or write request).
EssMaxOperand == 1
\* Latest uptime, in seconds, at which an update is evaluated in SpecEss.
EssMaxUptime == 1
\* Iterations of the loop of bme68x_iaq_run over a run of SpecIaq.
IaqMaxIter == 4
\* Calls of the NVS state functions over a run of SpecNvs.
NvsMaxCalls == 3
\* Largest length of a BSEC state handed to bme68x_iaq_nvs_write_state.
NvsMaxLen == 2

(* ------------------------- program constants --------------------------- *)
BME68X_GAP_CFG_ADV_AUTO == 1
BME68X_GAP_STATE_ADV_CONN == 65536
BME68X_GAP_STATE_CONNECTED == 131072
BME68X_GAP_STATE_ENETDOWN == 16777216
\* Bitmask for configuration flags (0x0000ffff): they sit below this value.
CFG_MASK_END == 65536
\* conn_avail is a uint8_t.
UINT8_MOD == 256

CONN_MGR_EVT_CONNECTION == "CONNECTION"
CONN_MGR_EVT_DISCONNECTION == "DISCONNECTION"
CONN_MGR_EVT_CONN_RECYCLED == "CONN_RECYCLED"

\* Return values, by the name of the errno macro the code returns.
RC_OK == "0"
EBUSY == "-EBUSY"
EADDRINUSE == "-EADDRINUSE"
ECONNREFUSED == "-ECONNREFUSED"
EEXIST == "-EEXIST"
RC_NONE == "none"

Threads == 0 .. NumCallers
\* struct bt_conn objects; NULL_CONN: no connection in the message
\* (CONN_MGR_EVT_CONN_RECYCLED).
Peers == 1 .. NumPeers
NULL_CONN == 0
InitThread == 0

(* --------------------------- bit operations ---------------------------- *)
\* flags & b, for a single-bit mask b
HasFlag(f, b) == (f \div b) % 2 = 1
\* flags |= b
SetFlag(f, b) == IF HasFlag(f, b) THEN f ELSE f + b
\* flags &= ~b
ClearFlag(f, b) == IF HasFlag(f, b) THEN f - b ELSE f

\* --conn_avail and ++conn_avail on a uint8_t
Dec8(x) == (x + UINT8_MOD - 1) % UINT8_MOD
Inc8(x) == (x + 1) % UINT8_MOD

\* CONN_MGR_MAX_MSG, the capacity of conn_mgr_msgq
CONN_MGR_MAX_MSG(n) == 2 * n

VARIABLES
    max_conn,              \* CONFIG_BT_MAX_CONN
    cfg_flags,             \* CONN_MGR_CFG_FLAGS
    cb_gap_state_changed,  \* TRUE iff conn_mgr.cb_gap_state_changed != NULL
    ev_budget,             \* callbacks the Bluetooth stack fires over the run
    conn_pool,             \* connection objects the stack uses over the run
    refs,                  \* per connection: bt_conn_ref calls of the manager
                           \* minus its bt_conn_unref calls
    link,                  \* per connection, as the stack notified it:
                           \* "idle" or "up" (connected, not yet disconnected)
    ended,                 \* connections notified as ended (failed or
                           \* disconnected) and not yet as recycled
    wf,                    \* the notifications so far follow the life of a
                           \* connection: connected on an idle one,
                           \* disconnected on one that is up, recycled after
                           \* one has ended
    n_put, n_got,          \* messages accepted by k_msgq_put, taken by k_msgq_get
    registered,            \* conn_mgr_conn_callbacks registered with the stack
    i_pc, i_rc,            \* bme68x_esp_gap_init on thread 0: position, result
    flags, conn_avail,     \* conn_mgr.flags, conn_mgr.conn_avail
    state_lock,            \* count of the semaphore conn_mgr.state_lock
    conn_mgr_msgq,         \* content of the message queue
    n_events,              \* callbacks fired so far (bounded by ev_budget)
    w_pc, w_msg, w_flags, w_conn_avail,   \* conn_mgr_msgq_recv: position, locals
    w_hist,                \* what the current Worker transition has done
    c_pc, c_flags, c_conn_avail, c_rc,    \* bme68x_esp_gap_adv_start per thread
    c_hist,                \* what the current call has done
    seq,                   \* state reached by replaying the transitions one
                           \* after the other, in the order they took the lock
    last_commit,           \* TRUE iff the transition that released the lock
                           \* last is a bme68x_esp_gap_adv_start returning 0
    processed,             \* events whose transition has released the lock:
                           \* connections and recycled slots
    undelivered            \* the transitions that have released the lock and
                           \* not yet passed the callback, in the order of
                           \* their k_sem_give

gapVars == <<max_conn, cfg_flags, cb_gap_state_changed, ev_budget, conn_pool, refs, link, ended, wf,
          n_put, n_got, registered, i_pc, i_rc,
          flags, conn_avail, state_lock, conn_mgr_msgq, n_events,
          w_pc, w_msg, w_flags, w_conn_avail, w_hist,
          c_pc, c_flags, c_conn_avail, c_rc, c_hist, seq, last_commit, processed, undelivered>>

cfgVars == <<max_conn, cfg_flags, cb_gap_state_changed, ev_budget, conn_pool>>
peerVars == <<refs, link, ended, wf>>
fifoVars == <<n_put, n_got>>
initVars == <<registered, i_pc, i_rc>>
stateVars == <<flags, conn_avail, state_lock>>
queueVars == <<conn_mgr_msgq, n_events>>
workerVars == <<w_pc, w_msg, w_flags, w_conn_avail, w_hist>>
callerVars == <<c_pc, c_flags, c_conn_avail, c_rc, c_hist>>
ghostVars == <<seq, last_commit, processed, undelivered>>

\* The consumer thread, next to the threads of Threads.
WorkerId == NumCallers + 1
\* The sequence without the element x.
Without(q, x) == SelectSeq(q, LAMBDA y : y # x)

\* No event processed yet.
NoneProcessed == [connections |-> 0, recycled |-> 0]

\* An event message: struct conn_mgr_msg (err is connection.err != 0, conn
\* the connection / disconnection .conn). id is the rank of the message among
\* those k_msgq_put accepted, 0 before it is put.
Msg(ev, e, c) == [event |-> ev, err |-> e, conn |-> c, id |-> 0]
NoMsg == Msg("none", FALSE, NULL_CONN)
Messages ==
    {Msg(CONN_MGR_EVT_CONNECTION, e, c) : e \in BOOLEAN, c \in Peers}
      \cup {Msg(CONN_MGR_EVT_DISCONNECTION, FALSE, c) : c \in Peers}
      \cup {Msg(CONN_MGR_EVT_CONN_RECYCLED, FALSE, NULL_CONN)}

\* Per-transition history: the pair read on entry, the calls made to
\* bt_le_adv_start and their last outcome, the callback invocations, the pair
\* in conn_mgr when the semaphore was given, the pair the sequential replay
\* reaches with this transition, the takes and gives of the semaphore, and
\* whether the transition before was a successful API call.
NoPair == <<-1, -1>>
NoHist == [in |-> NoPair, adv_calls |-> 0, adv_err |-> FALSE, cb_calls |-> 0,
           wrote |-> NoPair, replay |-> NoPair, took |-> 0, gave |-> 0,
           pred |-> FALSE, unrefs |-> 0]


(* ------------- Environmental Sensing Service (bme68x_ess.c) ------------ *)
\* enum es_trigger_setting_condition
ES_TRIGGER_INACTIVE == 0
ES_TRIGGER_FIXED_TIME == 1
ES_TRIGGER_GTE_TIME == 2
ES_TRIGGER_VALUE_CHANGED == 3
ES_TRIGGER_LT_VALUE == 4
ES_TRIGGER_LTE_VALUE == 5
ES_TRIGGER_GT_VALUE == 6
ES_TRIGGER_GTE_VALUE == 7
ES_TRIGGER_SPECIFIED_VALUE == 8
ES_TRIGGER_NOT_SPECIFIED_VALUE == 9
Conditions == ES_TRIGGER_INACTIVE .. ES_TRIGGER_NOT_SPECIFIED_VALUE

CPF_FORMAT_UINT16 == 6
CPF_FORMAT_UINT32 == 8
CPF_FORMAT_SINT16 == 14

\* (int16_t)0x8000 and (uint16_t)0xffff
ESS_GATT_TEMPERATURE_UNKNOWN == -32768
ESS_GATT_HUMIDITY_UNKNOWN == 65535
\* Lowest temperature and highest humidity accepted (0.01 degC, 0.01 %).
TEMPERATURE_MIN == -27315
HUMIDITY_MAX == 10000
BT_GATT_CCC_NOTIFY == 1
UINT16_MOD == 65536

EINVAL == "-EINVAL"
ENOENT == "-ENOENT"
ERANGE == "-ERANGE"
EIO == "-EIO"
\* sizeof(uint32_t): the size of the STATE_LEN element.
SZ_STATE_LEN == 4
BT_ATT_ERR_OUT_OF_RANGE == "BT_ATT_ERR_OUT_OF_RANGE"
ESS_ERROR_CONDITION_NOT_SUPPORTED == "ESS_ERROR_CONDITION_NOT_SUPPORTED"

\* The three characteristics: ess_chrc_temperature, ess_chrc_pressure,
\* ess_chrc_humidity, and their cpf.format.
Characteristics == {"temperature", "pressure", "humidity"}
CpfFormat(ch) ==
    CASE ch = "temperature" -> CPF_FORMAT_SINT16
      [] ch = "pressure" -> CPF_FORMAT_UINT32
      [] ch = "humidity" -> CPF_FORMAT_UINT16

VARIABLES
    ess_chrc,              \* the characteristic followed: one of Characteristics
    value,                 \* chrc->value
    value_ts,              \* chrc->value_ts
    ccc_notify,            \* chrc->ccc_notify (0 or 1)
    trigger_setting,       \* chrc->trigger_setting: condition, and operand as
                           \* the 32 bits of the union
    trigger_timer,         \* chrc->trigger_timer: running, period in seconds,
                           \* expired once its expiry function has notified
                           \* the value since it was started
    trigger_setting_cnt,   \* chrc->trigger_setting_cnt
    upd,                   \* bme68x_ess_update_*: position and locals
    gw,                    \* es_trigger_setting_gatt_write_cb: position, locals
    setting_by,            \* per field of trigger_setting, the rank of the
                           \* write request that stored it (0: bme68x_ess_init)
    n_writes               \* write requests received so far

essVars == <<ess_chrc, value, value_ts, ccc_notify, trigger_setting, trigger_timer,
             trigger_setting_cnt, upd, gw, setting_by, n_writes>>

\* Locals of a thread outside the function.
NoUpd == [pc |-> "idle", arg |-> 0, old_value |-> 0, ccc |-> 0, writes_cnt |-> 0,
          condition |-> 0, operand |-> 0, cond_by |-> 0, oper_by |-> 0,
          rc |-> RC_NONE, notify |-> FALSE, stored |-> FALSE]
NoGw == [pc |-> "idle", condition |-> 0, operand |-> 0, sz_operand |-> 0,
         rc |-> RC_NONE, id |-> 0]

\* The service before bme68x_ess_init, with no request and no update: what
\* the connection manager's specifications see of it.
EssIdle ==
    /\ ess_chrc = "temperature"
    /\ value = ESS_GATT_TEMPERATURE_UNKNOWN
    /\ value_ts = 0
    /\ ccc_notify = 0
    /\ trigger_setting = [condition |-> ES_TRIGGER_VALUE_CHANGED, operand |-> 0]
    /\ trigger_timer = [running |-> FALSE, period |-> 0, expired |-> FALSE]
    /\ trigger_setting_cnt = 0
    /\ upd = NoUpd
    /\ gw = NoGw
    /\ setting_by = [condition |-> 0, operand |-> 0]
    /\ n_writes = 0

(* ---------------- BSEC state in NVS (bme68x_iaq_nvs.c) ----------------- *)
VARIABLES
    nvs_len,               \* element STATE_LEN: <<>> when absent, else <<the length stored>>
    nvs_blob,              \* element STATE_BLOB: <<>> when absent, else <<the size of its data>>
    nv,                    \* the call in progress: position, arguments, locals
    nv_calls               \* calls begun so far

nvsVars == <<nvs_len, nvs_blob, nv, nv_calls>>

\* An element the file system does not hold.
ABSENT == <<>>
\* No call in progress. log lists the accesses to the file system made by
\* the call, in order.
NoNv == [pc |-> "idle", op |-> "none", len |-> 0, ret |-> RC_NONE,
         out_len |-> ABSENT, log |-> <<>>]

\* A mounted file system without a saved state, no call made.
NvsIdle ==
    /\ nvs_len = ABSENT
    /\ nvs_blob = ABSENT
    /\ nv = NoNv
    /\ nv_calls = 0

(* ------------------ BSEC control loop (bme68x_iaq.c) ------------------- *)
VARIABLES
    q_pc,                  \* bme68x_iaq_run: position
    q_ret,                 \* its local ret
    q_hist,                \* what the current iteration has done
    q_iter                 \* iterations begun so far

runVars == <<q_pc, q_ret, q_hist, q_iter>>
iaqVars == <<runVars, nvsVars>>

\* The statuses a step has returned in this iteration: none when it has not
\* run, else one.
NOT_RUN == <<>>
NoIter == [too_early |-> FALSE, control |-> NOT_RUN, wanted |-> FALSE,
           trigger |-> NOT_RUN, data |-> NOT_RUN, steps |-> NOT_RUN,
           cnt_outputs |-> 0, handler_calls |-> 0]

\* bme68x_iaq_run not called.
RunIdle ==
    /\ q_pc = "off"
    /\ q_ret = 0
    /\ q_hist = NoIter
    /\ q_iter = 0

\* The library before any of its functions is called.
IaqIdle ==
    /\ RunIdle
    /\ NvsIdle

vars == <<gapVars, essVars, iaqVars>>

(* ------------------------ the code's pure parts ------------------------ *)
Min(a, b) == IF a < b THEN a ELSE b
Pair(f, ca) == <<f, ca>>

\* k_sem_take with its result ignored: the caller goes on whatever the count.
SemCanTake_Ignored(count) == TRUE

\* k_sem_take: the take succeeds iff the count is not zero.
SemCanTake(count) == count > 0
\* A release path without its k_sem_give.
SemGive_Missing(count) == count
\* k_sem_give on a semaphore of limit 1.
SemGive(count) == Min(count + 1, 1)

\* bt_conn_cb_register reporting a success whatever is registered.
bt_conn_cb_register_Unchecked(reg) == RC_OK

\* bt_conn_cb_register(&conn_mgr_conn_callbacks): -EEXIST when the callbacks
\* are registered already (reg), 0 otherwise.
bt_conn_cb_register(reg) == IF reg THEN EEXIST ELSE RC_OK

\* conn_mgr_adv_start leaving the error bit as it is on a success.
conn_mgr_adv_start_ErrBitKept(f, err) ==
    IF err
    THEN [flags |-> SetFlag(f, BME68X_GAP_STATE_ENETDOWN), rc |-> ECONNREFUSED]
    ELSE [flags |-> SetFlag(f, BME68X_GAP_STATE_ADV_CONN), rc |-> RC_OK]

\* conn_mgr_adv_start not setting the advertising bit on a success.
conn_mgr_adv_start_AdvBitNotSet(f, err) ==
    IF err
    THEN [flags |-> SetFlag(f, BME68X_GAP_STATE_ENETDOWN), rc |-> ECONNREFUSED]
    ELSE [flags |-> ClearFlag(f, BME68X_GAP_STATE_ENETDOWN), rc |-> RC_OK]

\* conn_mgr_adv_start assigning the error bit to *flags on a failure, not
\* or-ing it in.
conn_mgr_adv_start_FlagsAssigned(f, err) ==
    IF err
    THEN [flags |-> BME68X_GAP_STATE_ENETDOWN, rc |-> ECONNREFUSED]
    ELSE [flags |-> SetFlag(ClearFlag(f, BME68X_GAP_STATE_ENETDOWN),
                            BME68X_GAP_STATE_ADV_CONN),
          rc |-> RC_OK]

\* conn_mgr_adv_start: bt_le_adv_start has returned err (TRUE: a failure).
conn_mgr_adv_start(f, err) ==
    IF err
    THEN [flags |-> SetFlag(f, BME68X_GAP_STATE_ENETDOWN), rc |-> ECONNREFUSED]
    ELSE [flags |-> SetFlag(ClearFlag(f, BME68X_GAP_STATE_ENETDOWN),
                            BME68X_GAP_STATE_ADV_CONN),
          rc |-> RC_OK]

\* bme68x_esp_gap_adv_start without the test of the advertising bit.
AdvStartBody_NoAdvCheck(f, ca, err) ==
    IF ca = 0
    THEN [flags |-> f, rc |-> ECONNREFUSED, called |-> FALSE]
    ELSE [flags |-> conn_mgr_adv_start(f, err).flags,
          rc |-> conn_mgr_adv_start(f, err).rc, called |-> TRUE]

\* bme68x_esp_gap_adv_start without the test of conn_avail.
AdvStartBody_NoSlotCheck(f, ca, err) ==
    IF HasFlag(f, BME68X_GAP_STATE_ADV_CONN)
    THEN [flags |-> f, rc |-> EADDRINUSE, called |-> FALSE]
    ELSE [flags |-> conn_mgr_adv_start(f, err).flags,
          rc |-> conn_mgr_adv_start(f, err).rc, called |-> TRUE]

\* bme68x_esp_gap_adv_start between acquire and release: the two early exits
\* and the call of conn_mgr_adv_start. called: bt_le_adv_start was invoked.
AdvStartBody(f, ca, err) ==
    IF HasFlag(f, BME68X_GAP_STATE_ADV_CONN)
    THEN [flags |-> f, rc |-> EADDRINUSE, called |-> FALSE]
    ELSE IF ca = 0
    THEN [flags |-> f, rc |-> ECONNREFUSED, called |-> FALSE]
    ELSE [flags |-> conn_mgr_adv_start(f, err).flags,
          rc |-> conn_mgr_adv_start(f, err).rc, called |-> TRUE]

\* The dispatch leaving the advertising bit as it is on a connection.
EventUpdate_AdvBitKept(msg, f, ca, mc) ==
    IF msg.event = CONN_MGR_EVT_CONNECTION
    THEN [flags |-> IF msg.err THEN f ELSE SetFlag(f, BME68X_GAP_STATE_CONNECTED),
          conn_avail |-> Dec8(ca)]
    ELSE IF msg.event = CONN_MGR_EVT_DISCONNECTION
    THEN [flags |-> IF ca + 1 = mc
                    THEN ClearFlag(f, BME68X_GAP_STATE_CONNECTED)
                    ELSE f,
          conn_avail |-> ca]
    ELSE IF msg.event = CONN_MGR_EVT_CONN_RECYCLED
    THEN [flags |-> f, conn_avail |-> Inc8(ca)]
    ELSE [flags |-> f, conn_avail |-> ca]

\* The dispatch clearing the connected bit on every disconnection.
EventUpdate_LastPeerUntested(msg, f, ca, mc) ==
    IF msg.event = CONN_MGR_EVT_CONNECTION
    THEN [flags |-> IF msg.err
                    THEN ClearFlag(f, BME68X_GAP_STATE_ADV_CONN)
                    ELSE SetFlag(ClearFlag(f, BME68X_GAP_STATE_ADV_CONN),
                                 BME68X_GAP_STATE_CONNECTED),
          conn_avail |-> Dec8(ca)]
    ELSE IF msg.event = CONN_MGR_EVT_DISCONNECTION
    THEN [flags |-> ClearFlag(f, BME68X_GAP_STATE_CONNECTED), conn_avail |-> ca]
    ELSE IF msg.event = CONN_MGR_EVT_CONN_RECYCLED
    THEN [flags |-> f, conn_avail |-> Inc8(ca)]
    ELSE [flags |-> f, conn_avail |-> ca]

\* conn_mgr_msgq_recv, the dispatch on msg.event (before the auto-resume check).
EventUpdate(msg, f, ca, mc) ==
    IF msg.event = CONN_MGR_EVT_CONNECTION
    THEN [flags |-> IF msg.err
                    THEN ClearFlag(f, BME68X_GAP_STATE_ADV_CONN)
                    ELSE SetFlag(ClearFlag(f, BME68X_GAP_STATE_ADV_CONN),
                                 BME68X_GAP_STATE_CONNECTED),
          conn_avail |-> Dec8(ca)]
    ELSE IF msg.event = CONN_MGR_EVT_DISCONNECTION
    THEN [flags |-> IF ca + 1 = mc
                    THEN ClearFlag(f, BME68X_GAP_STATE_CONNECTED)
                    ELSE f,
          conn_avail |-> ca]
    ELSE IF msg.event = CONN_MGR_EVT_CONN_RECYCLED
    THEN [flags |-> f, conn_avail |-> Inc8(ca)]
    ELSE [flags |-> f, conn_avail |-> ca]

\* The dispatch keeping the reference of a failed connection.
EventUnref_OnDisconnectionOnly(msg) ==
    msg.event = CONN_MGR_EVT_DISCONNECTION

\* conn_mgr_msgq_recv, the dispatch on msg.event: bt_conn_unref is called on
\* the message's connection.
EventUnref(msg) ==
    \/ msg.event = CONN_MGR_EVT_CONNECTION /\ msg.err
    \/ msg.event = CONN_MGR_EVT_DISCONNECTION

\* The auto-resume check without the test of conn_avail.
AutoResume_SlotsIgnored(f, ca) ==
    /\ ~HasFlag(f, BME68X_GAP_STATE_ADV_CONN)
    /\ HasFlag(f, BME68X_GAP_CFG_ADV_AUTO)

\* The auto-resume check without the test of the configuration bit.
AutoResume_NotConfigured(f, ca) ==
    /\ ~HasFlag(f, BME68X_GAP_STATE_ADV_CONN)
    /\ ca # 0

\* The auto-resume check giving up once the error bit is set.
AutoResume_NotWhenDown(f, ca) ==
    /\ ~HasFlag(f, BME68X_GAP_STATE_ADV_CONN)
    /\ ~HasFlag(f, BME68X_GAP_STATE_ENETDOWN)
    /\ HasFlag(f, BME68X_GAP_CFG_ADV_AUTO)
    /\ ca # 0

\* conn_mgr_msgq_recv, the condition of the auto-resume check.
AutoResume(f, ca) ==
    /\ ~HasFlag(f, BME68X_GAP_STATE_ADV_CONN)
    /\ HasFlag(f, BME68X_GAP_CFG_ADV_AUTO)
    /\ ca # 0

\* conn_mgr_release_state calling through cb_gap_state_changed untested.
CallbackCalls_Untested(cb) == 1

\* conn_mgr_release_state: the callback is invoked once if one is registered.
CallbackCalls(cb) == IF cb THEN 1 ELSE 0

\* The callback handed conn_mgr.flags and conn_mgr.conn_avail, read again
\* after k_sem_give.
CallbackArgs_Reread(lf, lca, gf, gca) == Pair(gf, gca)

\* conn_mgr_release_state: the arguments handed to cb_gap_state_changed are the
\* caller's locals lf, lca (gf, gca: conn_mgr.flags, conn_mgr.conn_avail).
CallbackArgs(lf, lca, gf, gca) == Pair(lf, lca)

\* k_msgq_put on a queue without a limit.
MsgqPut_Unbounded(q, msg, mc) == Append(q, msg)

\* conn_mgr_msgq_send: k_msgq_put with K_NO_WAIT, the message is dropped when
\* the queue is full.
MsgqPut(q, msg, mc) ==
    IF Len(q) < CONN_MGR_MAX_MSG(mc) THEN Append(q, msg) ELSE q

\* k_msgq_get taking the message put last.
MsgqGet_Newest(q) == [msg |-> q[Len(q)], rest |-> SubSeq(q, 1, Len(q) - 1)]

\* k_msgq_get on a queue that is not empty: the oldest message, and the rest.
MsgqGet(q) == [msg |-> Head(q), rest |-> Tail(q)]

\* The life of a connection as the stack notifies it: the notification fits
\* the state lk of its connection and the count en of ended connections, and
\* the state and the count after it.
LinkFits(msg, lk, en) ==
    CASE msg.event = CONN_MGR_EVT_CONNECTION -> lk[msg.conn] = "idle"
      [] msg.event = CONN_MGR_EVT_DISCONNECTION -> lk[msg.conn] = "up"
      [] msg.event = CONN_MGR_EVT_CONN_RECYCLED -> en > 0
      [] OTHER -> TRUE
EndedAfter(msg, en) ==
    CASE msg.event = CONN_MGR_EVT_CONNECTION /\ msg.err -> en + 1
      [] msg.event = CONN_MGR_EVT_DISCONNECTION -> en + 1
      [] msg.event = CONN_MGR_EVT_CONN_RECYCLED /\ en > 0 -> en - 1
      [] OTHER -> en
LinkAfter(msg, lk) ==
    CASE msg.event = CONN_MGR_EVT_CONNECTION /\ ~msg.err ->
           [lk EXCEPT ![msg.conn] = "up"]
      [] msg.event = CONN_MGR_EVT_DISCONNECTION ->
           [lk EXCEPT ![msg.conn] = "idle"]
      [] OTHER -> lk

(* ------------- the sequential replay of a whole transition ------------- *)
SeqAdvStart(s, err) ==
    [flags |-> AdvStartBody(s.flags, s.conn_avail, err).flags,
     conn_avail |-> s.conn_avail]

SeqEvent(s, msg, err, mc) ==
    LET u == EventUpdate(msg, s.flags, s.conn_avail, mc)
    IN  IF AutoResume(u.flags, u.conn_avail)
        THEN [flags |-> conn_mgr_adv_start(u.flags, err).flags,
              conn_avail |-> u.conn_avail]
        ELSE u

(* -------------------------------- Init --------------------------------- *)
\* Before bme68x_esp_gap_init: conn_mgr is a zero-initialised static, the
\* message queue is statically defined and empty, no thread is running.
Init ==
    /\ EssIdle
    /\ IaqIdle
    /\ max_conn \in 1 .. MaxConnCfg
    /\ cfg_flags \in {0, BME68X_GAP_CFG_ADV_AUTO}
    /\ cb_gap_state_changed \in BOOLEAN
    /\ ev_budget = MaxEvents
    /\ conn_pool = {1}
    /\ refs = [c \in Peers |-> 0]
    /\ link = [c \in Peers |-> "idle"]
    /\ ended = 0
    /\ wf = TRUE
    /\ n_put = 0
    /\ n_got = 0
    /\ registered = FALSE
    /\ i_pc = "start"
    /\ i_rc = RC_NONE
    /\ flags = 0
    /\ conn_avail = 0
    /\ state_lock = 0
    /\ conn_mgr_msgq = <<>>
    /\ n_events = 0
    /\ w_pc = "off"
    /\ w_msg = NoMsg
    /\ w_flags = 0
    /\ w_conn_avail = 0
    /\ w_hist = NoHist
    /\ c_pc = [t \in Threads |-> "idle"]
    /\ c_flags = [t \in Threads |-> 0]
    /\ c_conn_avail = [t \in Threads |-> 0]
    /\ c_rc = [t \in Threads |-> RC_NONE]
    /\ c_hist = [t \in Threads |-> NoHist]
    /\ seq = [flags |-> 0, conn_avail |-> 0]
    /\ last_commit = FALSE
    /\ processed = NoneProcessed
    /\ undelivered = <<>>

(* ------------------- the Bluetooth stack's callbacks ------------------- *)
\* conn_mgr_msgq_send, with the stack's notification recorded in link and wf.
conn_mgr_msgq_send(msg) ==
    /\ registered
    /\ n_events < ev_budget
    /\ n_events' = n_events + 1
    /\ conn_mgr_msgq' = MsgqPut(conn_mgr_msgq, [msg EXCEPT !.id = n_put + 1], max_conn)
    /\ n_put' = n_put + Len(conn_mgr_msgq') - Len(conn_mgr_msgq)
    /\ link' = LinkAfter(msg, link)
    /\ ended' = EndedAfter(msg, ended)
    /\ wf' = (wf /\ LinkFits(msg, link, ended))
    /\ UNCHANGED <<essVars, iaqVars, cfgVars, n_got, initVars, stateVars, workerVars, callerVars,
                   ghostVars>>

\* bt_conn_ref(conn), then the message is sent.
cb_conn_connected ==
    \E c \in conn_pool, err \in BOOLEAN :
      /\ refs' = [refs EXCEPT ![c] = @ + 1]
      /\ conn_mgr_msgq_send(Msg(CONN_MGR_EVT_CONNECTION, err, c))

cb_conn_disconnected ==
    \E c \in conn_pool :
      /\ refs' = refs
      /\ conn_mgr_msgq_send(Msg(CONN_MGR_EVT_DISCONNECTION, FALSE, c))

cb_conn_recycled ==
    /\ refs' = refs
    /\ conn_mgr_msgq_send(Msg(CONN_MGR_EVT_CONN_RECYCLED, FALSE, NULL_CONN))

(* ------------------------- bme68x_esp_gap_init ------------------------- *)
\* bme68x_esp_gap_init is called, the first time or again by the thread that
\* called it before. When bt_conn_cb_register succeeds the callbacks may fire
\* from now on; otherwise its result is returned at once.
InitRegister ==
    /\ i_pc \in {"start", "done"}
    /\ c_pc[InitThread] = "idle"
    /\ IF bt_conn_cb_register(registered) = RC_OK
       THEN /\ registered' = TRUE
            /\ i_pc' = "registered"
            /\ i_rc' = i_rc
       ELSE /\ registered' = registered
            /\ i_pc' = "ret"
            /\ i_rc' = bt_conn_cb_register(registered)
    /\ UNCHANGED <<essVars, iaqVars, cfgVars, peerVars, fifoVars, stateVars, queueVars, workerVars, callerVars,
                   ghostVars>>

\* conn_manager_init: seeds the state, initialises the semaphore (1, 1) and
\* creates the consumer thread; without CONFIG_BME68X_ESP_GAP_ADV_AUTO
\* bme68x_esp_gap_init returns rc = 0 right after.
conn_manager_init ==
    /\ i_pc = "registered"
    /\ flags' = cfg_flags
    /\ conn_avail' = max_conn
    /\ state_lock' = 1
    /\ w_pc' = "get"
    /\ IF HasFlag(cfg_flags, BME68X_GAP_CFG_ADV_AUTO)
       THEN i_pc' = "adv" /\ i_rc' = i_rc
       ELSE i_pc' = "ret" /\ i_rc' = RC_OK
    /\ seq' = [flags |-> cfg_flags, conn_avail |-> max_conn]
    /\ last_commit' = FALSE
    /\ processed' = NoneProcessed
    /\ undelivered' = <<>>
    /\ UNCHANGED <<essVars, iaqVars, cfgVars, peerVars, fifoVars, registered, queueVars, w_msg, w_flags, w_conn_avail,
                   w_hist, callerVars>>

\* bme68x_esp_gap_init has returned rc to its caller.
InitReturn ==
    /\ i_pc = "ret"
    /\ i_pc' = "done"
    /\ i_rc' = RC_NONE
    /\ UNCHANGED <<essVars, iaqVars, cfgVars, peerVars, fifoVars, registered, stateVars, queueVars, workerVars,
                   callerVars, ghostVars>>

(* ---------------------- bme68x_esp_gap_adv_start ----------------------- *)
\* Thread 0 calls from bme68x_esp_gap_init (i_pc = "adv") and, like the other
\* threads, once the manager is initialised.
MayCall(t) ==
    \/ t = InitThread /\ i_pc \in {"adv", "done"}
    \/ t # InitThread /\ i_pc = "done"

\* conn_mgr_acquire_state(K_NO_WAIT): k_sem_take and, with the semaphore
\* taken, *flags = conn_mgr.flags; *conn_avail = conn_mgr.conn_avail.
\* Without it bme68x_esp_gap_adv_start returns -EBUSY.
AdvStartAcquire(t) ==
    /\ c_pc[t] = "idle"
    /\ MayCall(t)
    /\ IF SemCanTake(state_lock)
       THEN /\ state_lock' = state_lock - 1
            /\ c_flags' = [c_flags EXCEPT ![t] = flags]
            /\ c_conn_avail' = [c_conn_avail EXCEPT ![t] = conn_avail]
            /\ c_pc' = [c_pc EXCEPT ![t] = "body"]
            /\ c_rc' = [c_rc EXCEPT ![t] = RC_NONE]
            /\ c_hist' = [c_hist EXCEPT ![t] =
                            [NoHist EXCEPT !.took = 1,
                                           !.in = Pair(flags, conn_avail),
                                           !.pred = last_commit]]
       ELSE /\ state_lock' = state_lock
            /\ c_pc' = [c_pc EXCEPT ![t] = "ret"]
            /\ c_rc' = [c_rc EXCEPT ![t] = EBUSY]
            /\ c_hist' = [c_hist EXCEPT ![t] = NoHist]
            /\ UNCHANGED <<c_flags, c_conn_avail>>
    /\ UNCHANGED <<essVars, iaqVars, cfgVars, peerVars, fifoVars, initVars, flags, conn_avail, queueVars, workerVars,
                   ghostVars>>

\* The checks of the advertising bit and of conn_avail, then
\* conn_mgr_adv_start with the outcome err of bt_le_adv_start.
AdvStartCheck(t) ==
    /\ c_pc[t] = "body"
    /\ \E err \in BOOLEAN :
         LET r == AdvStartBody(c_flags[t], c_conn_avail[t], err)
         IN  /\ r.called \/ ~err
             /\ c_flags' = [c_flags EXCEPT ![t] = r.flags]
             /\ c_rc' = [c_rc EXCEPT ![t] = r.rc]
             /\ c_hist' = [c_hist EXCEPT
                  ![t].adv_calls = @ + (IF r.called THEN 1 ELSE 0),
                  ![t].adv_err = r.called /\ err]
    /\ c_pc' = [c_pc EXCEPT ![t] = "commit_flags"]
    /\ UNCHANGED <<essVars, iaqVars, cfgVars, peerVars, fifoVars, initVars, stateVars, queueVars, workerVars,
                   c_conn_avail, ghostVars>>

\* conn_mgr_release_state: conn_mgr.flags = flags
AdvStartCommitFlags(t) ==
    /\ c_pc[t] = "commit_flags"
    /\ flags' = c_flags[t]
    /\ c_pc' = [c_pc EXCEPT ![t] = "commit_avail"]
    /\ UNCHANGED <<essVars, iaqVars, cfgVars, peerVars, fifoVars, initVars, conn_avail, state_lock, queueVars,
                   workerVars, c_flags, c_conn_avail, c_rc, c_hist, ghostVars>>

\* conn_mgr_release_state: conn_mgr.conn_avail = conn_avail
AdvStartCommitAvail(t) ==
    /\ c_pc[t] = "commit_avail"
    /\ conn_avail' = c_conn_avail[t]
    /\ c_pc' = [c_pc EXCEPT ![t] = "give"]
    /\ UNCHANGED <<essVars, iaqVars, cfgVars, peerVars, fifoVars, initVars, flags, state_lock, queueVars,
                   workerVars, c_flags, c_conn_avail, c_rc, c_hist, ghostVars>>

\* conn_mgr_release_state: k_sem_give
AdvStartGive(t) ==
    /\ c_pc[t] = "give"
    /\ state_lock' = SemGive(state_lock)
    /\ seq' = SeqAdvStart(seq, c_hist[t].adv_err)
    /\ c_hist' = [c_hist EXCEPT ![t].gave = @ + 1,
                                ![t].wrote = Pair(flags, conn_avail),
                                ![t].replay = Pair(seq'.flags, seq'.conn_avail)]
    /\ last_commit' = (c_rc[t] = RC_OK)
    /\ processed' = processed
    /\ undelivered' = Append(undelivered, t)
    /\ c_pc' = [c_pc EXCEPT ![t] = "cb"]
    /\ UNCHANGED <<essVars, iaqVars, cfgVars, peerVars, fifoVars, initVars, flags, conn_avail, queueVars, workerVars,
                   c_flags, c_conn_avail, c_rc>>

\* conn_mgr_release_state: the callback, when one is registered, is handed
\* CallbackArgs. What remains is return rc: flags and conn_avail are dead.
AdvStartCallback(t) ==
    /\ c_pc[t] = "cb"
    /\ c_hist' = [c_hist EXCEPT ![t] =
                    [NoHist EXCEPT !.took = c_hist[t].took,
                                   !.gave = c_hist[t].gave,
                                   !.cb_calls = c_hist[t].cb_calls
                                     + CallbackCalls(cb_gap_state_changed)]]
    /\ c_flags' = [c_flags EXCEPT ![t] = 0]
    /\ c_conn_avail' = [c_conn_avail EXCEPT ![t] = 0]
    /\ c_pc' = [c_pc EXCEPT ![t] = "ret"]
    /\ undelivered' = Without(undelivered, t)
    /\ UNCHANGED <<essVars, iaqVars, cfgVars, peerVars, fifoVars, initVars, stateVars, queueVars, workerVars, c_rc,
                   seq, last_commit, processed>>

\* return rc; bme68x_esp_gap_init returns what its call returned.
AdvStartReturn(t) ==
    /\ c_pc[t] = "ret"
    /\ c_pc' = [c_pc EXCEPT ![t] = "idle"]
    /\ c_rc' = [c_rc EXCEPT ![t] = RC_NONE]
    /\ c_hist' = [c_hist EXCEPT ![t] = NoHist]
    /\ IF t = InitThread /\ i_pc = "adv"
       THEN i_pc' = "ret" /\ i_rc' = c_rc[t]
       ELSE UNCHANGED <<i_pc, i_rc>>
    /\ UNCHANGED <<essVars, iaqVars, cfgVars, peerVars, fifoVars, registered, stateVars, queueVars, workerVars,
                   c_flags, c_conn_avail, ghostVars>>

(* ------------------------- conn_mgr_msgq_recv -------------------------- *)
\* k_msgq_get(K_FOREVER): waits for a message
WorkerGet ==
    /\ w_pc = "get"
    /\ Len(conn_mgr_msgq) > 0
    /\ w_msg' = MsgqGet(conn_mgr_msgq).msg
    /\ conn_mgr_msgq' = MsgqGet(conn_mgr_msgq).rest
    /\ n_got' = n_got + 1
    /\ w_pc' = "take"
    /\ UNCHANGED <<essVars, iaqVars, cfgVars, peerVars, n_put, initVars, stateVars, n_events, w_flags, w_conn_avail,
                   w_hist, callerVars, ghostVars>>

\* conn_mgr_acquire_state(K_FOREVER): k_sem_take waits for the semaphore,
\* the locals are read from conn_mgr; then the dispatch on msg.event, which
\* touches the locals only.
WorkerAcquire ==
    /\ w_pc = "take"
    /\ SemCanTake(state_lock)
    /\ state_lock' = state_lock - 1
    /\ LET u == EventUpdate(w_msg, flags, conn_avail, max_conn)
       IN  w_flags' = u.flags /\ w_conn_avail' = u.conn_avail
    /\ refs' = IF EventUnref(w_msg)
               THEN [refs EXCEPT ![w_msg.conn] = @ - 1]
               ELSE refs
    /\ w_hist' = [w_hist EXCEPT !.took = 1, !.in = Pair(flags, conn_avail),
                                !.pred = last_commit,
                                !.unrefs = IF EventUnref(w_msg) THEN 1 ELSE 0]
    /\ w_pc' = "auto"
    /\ UNCHANGED <<essVars, iaqVars, cfgVars, link, ended, wf, fifoVars, initVars, flags, conn_avail, queueVars, w_msg,
                   callerVars, ghostVars>>

\* the auto-resume check, and conn_mgr_adv_start with the outcome err of
\* bt_le_adv_start when the check passes
WorkerAuto ==
    /\ w_pc = "auto"
    /\ IF AutoResume(w_flags, w_conn_avail)
       THEN \E err \in BOOLEAN :
              /\ w_flags' = conn_mgr_adv_start(w_flags, err).flags
              /\ w_hist' = [w_hist EXCEPT !.adv_calls = @ + 1, !.adv_err = err]
       ELSE UNCHANGED <<w_flags, w_hist>>
    /\ w_pc' = "commit_flags"
    /\ UNCHANGED <<essVars, iaqVars, cfgVars, peerVars, fifoVars, initVars, stateVars, queueVars, w_msg, w_conn_avail,
                   callerVars, ghostVars>>

WorkerCommitFlags ==
    /\ w_pc = "commit_flags"
    /\ flags' = w_flags
    /\ w_pc' = "commit_avail"
    /\ UNCHANGED <<essVars, iaqVars, cfgVars, peerVars, fifoVars, initVars, conn_avail, state_lock, queueVars, w_msg,
                   w_flags, w_conn_avail, w_hist, callerVars, ghostVars>>

WorkerCommitAvail ==
    /\ w_pc = "commit_avail"
    /\ conn_avail' = w_conn_avail
    /\ w_pc' = "give"
    /\ UNCHANGED <<essVars, iaqVars, cfgVars, peerVars, fifoVars, initVars, flags, state_lock, queueVars, w_msg,
                   w_flags, w_conn_avail, w_hist, callerVars, ghostVars>>

WorkerGive ==
    /\ w_pc = "give"
    /\ state_lock' = SemGive(state_lock)
    /\ seq' = SeqEvent(seq, w_msg, w_hist.adv_err, max_conn)
    /\ w_hist' = [w_hist EXCEPT !.gave = @ + 1,
                                !.wrote = Pair(flags, conn_avail),
                                !.replay = Pair(seq'.flags, seq'.conn_avail)]
    /\ last_commit' = FALSE
    /\ processed' = [connections |-> processed.connections
                          + (IF w_msg.event = CONN_MGR_EVT_CONNECTION THEN 1 ELSE 0),
                     recycled |-> processed.recycled
                          + (IF w_msg.event = CONN_MGR_EVT_CONN_RECYCLED THEN 1 ELSE 0)]
    /\ undelivered' = Append(undelivered, WorkerId)
    /\ w_pc' = "cb"
    /\ UNCHANGED <<essVars, iaqVars, cfgVars, peerVars, fifoVars, initVars, flags, conn_avail, queueVars, w_msg,
                   w_flags, w_conn_avail, callerVars>>

\* the callback, when one is registered, is handed CallbackArgs. What
\* remains is the end of the while (1) body: msg, flags and conn_avail are
\* dead, each is overwritten before it is read again.
WorkerCallback ==
    /\ w_pc = "cb"
    /\ w_hist' = [NoHist EXCEPT !.took = w_hist.took,
                                !.gave = w_hist.gave,
                                !.cb_calls = w_hist.cb_calls
                                  + CallbackCalls(cb_gap_state_changed)]
    /\ w_msg' = NoMsg
    /\ w_flags' = 0
    /\ w_conn_avail' = 0
    /\ w_pc' = "loop"
    /\ undelivered' = Without(undelivered, WorkerId)
    /\ UNCHANGED <<essVars, iaqVars, cfgVars, peerVars, fifoVars, initVars, stateVars, queueVars, callerVars,
                   seq, last_commit, processed>>

\* back to k_msgq_get
WorkerLoop ==
    /\ w_pc = "loop"
    /\ w_pc' = "get"
    /\ w_hist' = NoHist
    /\ UNCHANGED <<essVars, iaqVars, cfgVars, peerVars, fifoVars, initVars, stateVars, queueVars, w_msg, w_flags,
                   w_conn_avail, callerVars, ghostVars>>

(* --------------------------- specification ----------------------------- *)
Next ==
    \/ cb_conn_connected
    \/ cb_conn_disconnected
    \/ cb_conn_recycled
    \/ InitRegister
    \/ conn_manager_init
    \/ InitReturn
    \/ \E t \in Threads : AdvStartAcquire(t)
    \/ \E t \in Threads : AdvStartCheck(t)
    \/ \E t \in Threads : AdvStartCommitFlags(t)
    \/ \E t \in Threads : AdvStartCommitAvail(t)
    \/ \E t \in Threads : AdvStartGive(t)
    \/ \E t \in Threads : AdvStartCallback(t)
    \/ \E t \in Threads : AdvStartReturn(t)
    \/ WorkerGet
    \/ WorkerAcquire
    \/ WorkerAuto
    \/ WorkerCommitFlags
    \/ WorkerCommitAvail
    \/ WorkerGive
    \/ WorkerCallback
    \/ WorkerLoop

Spec == Init /\ [][Next]_vars

(* ------------- the initialised manager and its event stream ------------ *)
\* The manager once bme68x_esp_gap_init has returned and no call is in
\* progress: conn_manager_init has seeded the state and, with
\* CONFIG_BME68X_ESP_GAP_ADV_AUTO, bme68x_esp_gap_adv_start has run
\* (bt_le_adv_start succeeded or failed); without it the application has
\* called bme68x_esp_gap_adv_start or not.
InitWorker ==
    /\ EssIdle
    /\ IaqIdle
    /\ max_conn \in 1 .. WorkerMaxConn
    /\ cfg_flags \in {0, BME68X_GAP_CFG_ADV_AUTO}
    /\ cb_gap_state_changed \in BOOLEAN
    /\ ev_budget = WorkerMaxEvents
    /\ conn_pool = Peers
    /\ refs = [c \in Peers |-> 0]
    /\ link = [c \in Peers |-> "idle"]
    /\ ended = 0
    /\ wf = TRUE
    /\ n_put = 0
    /\ n_got = 0
    /\ registered = TRUE
    /\ i_pc = "done"
    /\ i_rc = RC_NONE
    /\ flags \in {conn_mgr_adv_start(cfg_flags, err).flags : err \in BOOLEAN}
                 \cup (IF HasFlag(cfg_flags, BME68X_GAP_CFG_ADV_AUTO)
                       THEN {} ELSE {cfg_flags})
    /\ conn_avail = max_conn
    /\ state_lock = 1
    /\ conn_mgr_msgq = <<>>
    /\ n_events = 0
    /\ w_pc = "get"
    /\ w_msg = NoMsg
    /\ w_flags = 0
    /\ w_conn_avail = 0
    /\ w_hist = NoHist
    /\ c_pc = [t \in Threads |-> "idle"]
    /\ c_flags = [t \in Threads |-> 0]
    /\ c_conn_avail = [t \in Threads |-> 0]
    /\ c_rc = [t \in Threads |-> RC_NONE]
    /\ c_hist = [t \in Threads |-> NoHist]
    /\ seq = [flags |-> flags, conn_avail |-> conn_avail]
    /\ last_commit = HasFlag(flags, BME68X_GAP_STATE_ADV_CONN)
    /\ processed = NoneProcessed
    /\ undelivered = <<>>

\* The stack's callbacks and the consumer thread; no call of
\* bme68x_esp_gap_adv_start after initialisation.
NextWorker ==
    \/ cb_conn_connected
    \/ cb_conn_disconnected
    \/ cb_conn_recycled
    \/ WorkerGet
    \/ WorkerAcquire
    \/ WorkerAuto
    \/ WorkerCommitFlags
    \/ WorkerCommitAvail
    \/ WorkerGive
    \/ WorkerCallback
    \/ WorkerLoop

SpecWorker == InitWorker /\ [][NextWorker]_vars

(* ------------------------- fair scheduling ----------------------------- *)
\* A thread that can run does run: the thread in bme68x_esp_gap_init reaches
\* conn_manager_init, a call that took the semaphore runs to its return, the
\* consumer thread runs whenever it is not waiting. Nothing makes the stack
\* fire a callback or the application call bme68x_esp_gap_adv_start.
\* k_sem_take(K_FOREVER) puts the consumer thread on the semaphore's wait
\* queue and k_sem_give wakes a waiting thread: a Worker that waits while the
\* semaphore is given again and again does take it (strong fairness).
Fairness ==
    /\ WF_vars(conn_manager_init)
    /\ \A t \in Threads :
         /\ WF_vars(AdvStartCheck(t))
         /\ WF_vars(AdvStartCommitFlags(t))
         /\ WF_vars(AdvStartCommitAvail(t))
         /\ WF_vars(AdvStartGive(t))
         /\ WF_vars(AdvStartCallback(t))
         /\ WF_vars(AdvStartReturn(t))
    /\ WF_vars(WorkerGet)
    /\ SF_vars(WorkerAcquire)
    /\ WF_vars(WorkerAuto)
    /\ WF_vars(WorkerCommitFlags)
    /\ WF_vars(WorkerCommitAvail)
    /\ WF_vars(WorkerGive)
    /\ WF_vars(WorkerCallback)
    /\ WF_vars(WorkerLoop)

SpecFair == Init /\ [][Next]_vars /\ Fairness

(* ------------------- Environmental Sensing Service --------------------- *)
\* int16_t and uint16_t conversions of an integer, and the conversion to the
\* type of a characteristic's value.
ToUint16(n) == n % UINT16_MOD
ToInt16(n) ==
    IF ToUint16(n) >= UINT16_MOD \div 2 THEN ToUint16(n) - UINT16_MOD ELSE ToUint16(n)
AsFormat(fmt, n) ==
    CASE fmt = CPF_FORMAT_SINT16 -> ToInt16(n)
      [] fmt = CPF_FORMAT_UINT16 -> ToUint16(n)
      [] fmt = CPF_FORMAT_UINT32 -> n

\* union es_trigger_setting_operand on a little-endian target: the 16-bit
\* members are the low half of the 32 bits, seconds and val_uint32 all of them.
OperandSeconds(raw) == raw
OperandValue(fmt, raw) == AsFormat(fmt, raw)
StoreSeconds(raw, n) == n
StoreValue(fmt, raw, n) ==
    IF fmt = CPF_FORMAT_UINT32
    THEN n
    ELSE (raw \div UINT16_MOD) * UINT16_MOD + ToUint16(n)

NoOperand(c) == c \in {ES_TRIGGER_INACTIVE, ES_TRIGGER_VALUE_CHANGED}
TimeBased(c) == c \in {ES_TRIGGER_FIXED_TIME, ES_TRIGGER_GTE_TIME}
ValueBased(c) == c \in ES_TRIGGER_LT_VALUE .. ES_TRIGGER_NOT_SPECIFIED_VALUE

\* es_trigger_setting_chk_format: the size of the operand expected, or the
\* error returned to the client.
es_trigger_setting_chk_format(cpf, condition, len) ==
    LET want == IF NoOperand(condition) THEN 0
                ELSE IF TimeBased(condition) THEN 3
                ELSE IF cpf = CPF_FORMAT_UINT32 THEN 4 ELSE 2
    IN  IF condition \notin Conditions
        THEN [ok |-> FALSE, sz |-> 0, err |-> ESS_ERROR_CONDITION_NOT_SUPPORTED]
        ELSE IF len = want
        THEN [ok |-> TRUE, sz |-> want, err |-> RC_NONE]
        ELSE [ok |-> FALSE, sz |-> 0, err |-> BT_ATT_ERR_OUT_OF_RANGE]

\* bme68x_ess_update_temperature without the exception made for the
\* 'unknown' value.
TemperatureValid_NoSentinel(t) == ~(t < TEMPERATURE_MIN)

\* bme68x_ess_update_temperature, bme68x_ess_update_humidity: the range check
\* (TRUE: the value is accepted). bme68x_ess_update_pressure has none.
TemperatureValid(t) ==
    ~(t < TEMPERATURE_MIN /\ t # ESS_GATT_TEMPERATURE_UNKNOWN)
HumidityValid(h) ==
    ~(h > HUMIDITY_MAX /\ h # ESS_GATT_HUMIDITY_UNKNOWN)
ValueValid(ch, v) ==
    CASE ch = "temperature" -> TemperatureValid(v)
      [] ch = "humidity" -> HumidityValid(v)
      [] ch = "pressure" -> TRUE

\* ES_TRIGGER_SETTING_CHECK_VALUE(COND, OPERAND, V, V0)
ES_TRIGGER_SETTING_CHECK_VALUE(cond, operand, v, v0) ==
    CASE cond = ES_TRIGGER_VALUE_CHANGED -> v # v0
      [] cond = ES_TRIGGER_LT_VALUE -> v < operand
      [] cond = ES_TRIGGER_LTE_VALUE -> v <= operand
      [] cond = ES_TRIGGER_GT_VALUE -> v > operand
      [] cond = ES_TRIGGER_GTE_VALUE -> v >= operand
      [] cond = ES_TRIGGER_SPECIFIED_VALUE -> v = operand
      [] cond = ES_TRIGGER_NOT_SPECIFIED_VALUE -> v # operand
      [] OTHER -> FALSE

\* (timesptamp - chrc->value_ts) >= operand.seconds on uint32_t: a timestamp
\* behind value_ts wraps to a difference above every 24-bit operand.
ElapsedAtLeast(ts, vts, seconds) ==
    IF ts >= vts THEN ts - vts >= seconds ELSE TRUE

\* The do-while of ess_chrc_value_update_notify: the setting is read again
\* when the counter read after it differs from the one read before.
RereadSetting(cnt_now, writes_cnt) == cnt_now # writes_cnt

\* ess_chrc_value_update_notify, the switch on the condition read: whether the
\* update is notified. ts is k_uptime_seconds(), vts is chrc->value_ts.
UpdateNotify(fmt, cond, raw, v, v0, ts, vts) ==
    CASE cond = ES_TRIGGER_INACTIVE -> FALSE
      [] cond = ES_TRIGGER_FIXED_TIME -> FALSE
      [] cond = ES_TRIGGER_GTE_TIME -> ElapsedAtLeast(ts, vts, OperandSeconds(raw))
      [] cond = ES_TRIGGER_VALUE_CHANGED \/ ValueBased(cond) ->
           ES_TRIGGER_SETTING_CHECK_VALUE(cond, OperandValue(fmt, raw), v, v0)
      [] OTHER -> FALSE
\* The timestamp local: non-zero only for ES_TRIGGER_GTE_TIME.
UpdateTimestamp(cond, ts) == IF cond = ES_TRIGGER_GTE_TIME THEN ts ELSE 0

\* k_timer: a timer started with a period is started again when it expires.
TimerRearmed(timer) == timer.period # 0

\* ess_chrc_trigger_timer_resume
TimerResume(timer, on, seconds) ==
    IF on THEN [running |-> TRUE, period |-> seconds, expired |-> FALSE]
    ELSE [timer EXCEPT !.running = FALSE, !.expired = FALSE]

\* Values handed to bme68x_ess_update_*: around the limits of the range
\* checks, the 'unknown' values, and values near the operands.
UpdateInputs(ch) ==
    CASE ch = "temperature" ->
           {ESS_GATT_TEMPERATURE_UNKNOWN, TEMPERATURE_MIN - 1, TEMPERATURE_MIN, 1}
      [] ch = "humidity" ->
           {1, HUMIDITY_MAX, HUMIDITY_MAX + 1, ESS_GATT_HUMIDITY_UNKNOWN}
      [] ch = "pressure" -> {1, 2}
\* Operands of the trigger settings, from Kconfig or from a write request.
EssOperands == 0 .. EssMaxOperand
\* Conditions built in through Kconfig: one without operand, one with an
\* interval and one with a value.
KconfigConditions ==
    {ES_TRIGGER_INACTIVE, ES_TRIGGER_FIXED_TIME, ES_TRIGGER_GTE_VALUE}
\* Condition bytes of a write request: the defined ones and one that is RFU.
WriteConditions == Conditions \cup {ES_TRIGGER_NOT_SPECIFIED_VALUE + 1}
\* Operand lengths of a write request.
WriteLens == {0, 2, 3, 4}
\* The value of a characteristic before its first update.
InitialValue(ch) ==
    CASE ch = "temperature" -> ESS_GATT_TEMPERATURE_UNKNOWN
      [] ch = "humidity" -> ESS_GATT_HUMIDITY_UNKNOWN
      [] ch = "pressure" -> 0

\* The connection manager before bme68x_esp_gap_init: what the
\* specifications of the other libraries see of it.
GapIdle ==
    /\ max_conn = 1
    /\ cfg_flags = 0
    /\ cb_gap_state_changed = FALSE
    /\ ev_budget = 0
    /\ conn_pool = {}
    /\ refs = [c \in Peers |-> 0]
    /\ link = [c \in Peers |-> "idle"]
    /\ ended = 0
    /\ wf = TRUE
    /\ n_put = 0
    /\ n_got = 0
    /\ registered = FALSE
    /\ i_pc = "start"
    /\ i_rc = RC_NONE
    /\ flags = 0
    /\ conn_avail = 0
    /\ state_lock = 0
    /\ conn_mgr_msgq = <<>>
    /\ n_events = 0
    /\ w_pc = "off"
    /\ w_msg = NoMsg
    /\ w_flags = 0
    /\ w_conn_avail = 0
    /\ w_hist = NoHist
    /\ c_pc = [t \in Threads |-> "idle"]
    /\ c_flags = [t \in Threads |-> 0]
    /\ c_conn_avail = [t \in Threads |-> 0]
    /\ c_rc = [t \in Threads |-> RC_NONE]
    /\ c_hist = [t \in Threads |-> NoHist]
    /\ seq = [flags |-> 0, conn_avail |-> 0]
    /\ last_commit = FALSE
    /\ processed = NoneProcessed
    /\ undelivered = <<>>

\* After bme68x_ess_init: ESS_CHRC_TRIGGER_SETTING_INIT has stored the
\* condition and the operand of Kconfig and initialised the timer.
InitEss ==
    /\ GapIdle
    /\ IaqIdle
    /\ ess_chrc \in Characteristics
    /\ value = InitialValue(ess_chrc)
    /\ value_ts = 0
    /\ ccc_notify = 0
    /\ \E c \in KconfigConditions, o \in EssOperands :
         trigger_setting =
           [condition |-> c,
            operand |-> IF TimeBased(c) THEN StoreSeconds(0, o)
                        ELSE IF ValueBased(c)
                        THEN StoreValue(CpfFormat(ess_chrc), 0, ToUint16(o))
                        ELSE 0]
    /\ trigger_timer = [running |-> FALSE, period |-> 0, expired |-> FALSE]
    /\ trigger_setting_cnt = 0
    /\ upd = NoUpd
    /\ gw = NoGw
    /\ setting_by = [condition |-> 0, operand |-> 0]
    /\ n_writes = 0

\* bme68x_ess_update_temperature / _pressure / _humidity is called with v:
\* the range check and, for an accepted value, atomic_set.
UpdateCall ==
    /\ upd.pc = "idle"
    /\ \E v \in UpdateInputs(ess_chrc) :
         IF ValueValid(ess_chrc, v)
         THEN /\ value' = v
              /\ upd' = [NoUpd EXCEPT !.pc = "ccc", !.arg = v, !.stored = TRUE,
                           !.old_value = AsFormat(CpfFormat(ess_chrc), value)]
         ELSE /\ value' = value
              /\ upd' = [NoUpd EXCEPT !.pc = "ret", !.arg = v, !.rc = EINVAL]
    /\ UNCHANGED <<gapVars, iaqVars, ess_chrc, value_ts, ccc_notify, trigger_setting,
                   trigger_timer, trigger_setting_cnt, gw, setting_by,
                   n_writes>>

\* ess_chrc_value_update_notify: atomic_get(&chrc->ccc_notify) == 0 returns.
UpdateCcc ==
    /\ upd.pc = "ccc"
    /\ upd' = IF ccc_notify = 0
              THEN [upd EXCEPT !.pc = "ret", !.rc = RC_OK]
              ELSE [upd EXCEPT !.pc = "cnt", !.ccc = ccc_notify]
    /\ UNCHANGED <<gapVars, iaqVars, ess_chrc, value, value_ts, ccc_notify,
                   trigger_setting, trigger_timer, trigger_setting_cnt, gw,
                   setting_by, n_writes>>

\* writes_cnt = atomic_get(&chrc->trigger_setting_cnt)
UpdateReadCnt ==
    /\ upd.pc = "cnt"
    /\ upd' = [upd EXCEPT !.pc = "cond", !.writes_cnt = trigger_setting_cnt]
    /\ UNCHANGED <<gapVars, iaqVars, ess_chrc, value, value_ts, ccc_notify,
                   trigger_setting, trigger_timer, trigger_setting_cnt, gw,
                   setting_by, n_writes>>

\* condition = chrc->trigger_setting.condition
UpdateReadCondition ==
    /\ upd.pc = "cond"
    /\ upd' = [upd EXCEPT !.pc = "operand",
                          !.condition = trigger_setting.condition,
                          !.cond_by = setting_by.condition]
    /\ UNCHANGED <<gapVars, iaqVars, ess_chrc, value, value_ts, ccc_notify,
                   trigger_setting, trigger_timer, trigger_setting_cnt, gw,
                   setting_by, n_writes>>

\* operand = chrc->trigger_setting.operand
UpdateReadOperand ==
    /\ upd.pc = "operand"
    /\ upd' = [upd EXCEPT !.pc = "recheck",
                          !.operand = trigger_setting.operand,
                          !.oper_by = setting_by.operand]
    /\ UNCHANGED <<gapVars, iaqVars, ess_chrc, value, value_ts, ccc_notify,
                   trigger_setting, trigger_timer, trigger_setting_cnt, gw,
                   setting_by, n_writes>>

\* while (atomic_get(&chrc->trigger_setting_cnt) != writes_cnt)
UpdateRecheck ==
    /\ upd.pc = "recheck"
    /\ upd' = [upd EXCEPT !.pc = IF RereadSetting(trigger_setting_cnt, upd.writes_cnt)
                                 THEN "cnt" ELSE "eval"]
    /\ UNCHANGED <<gapVars, iaqVars, ess_chrc, value, value_ts, ccc_notify,
                   trigger_setting, trigger_timer, trigger_setting_cnt, gw,
                   setting_by, n_writes>>

\* The switch on the condition, the update of value_ts and
\* ess_chrc_notify_value, which hands atomic_get(&chrc->value) to
\* bt_gatt_notify; then return 0. k_uptime_seconds() is an input, not below
\* the uptime stored in value_ts.
UpdateEval ==
    /\ upd.pc = "eval"
    /\ \E now \in value_ts .. EssMaxUptime :
         LET notify == UpdateNotify(CpfFormat(ess_chrc), upd.condition, upd.operand,
                                    upd.arg, upd.old_value, now, value_ts)
             ts == UpdateTimestamp(upd.condition, now)
         IN  /\ upd' = [upd EXCEPT !.pc = "ret", !.rc = RC_OK, !.notify = notify]
             /\ value_ts' = IF notify /\ ts # 0 THEN ts ELSE value_ts
    /\ UNCHANGED <<gapVars, iaqVars, ess_chrc, value, ccc_notify, trigger_setting,
                   trigger_timer, trigger_setting_cnt, gw, setting_by, n_writes>>

\* bme68x_ess_update_* has returned.
UpdateReturn ==
    /\ upd.pc = "ret"
    /\ upd' = NoUpd
    /\ UNCHANGED <<gapVars, iaqVars, ess_chrc, value, value_ts, ccc_notify,
                   trigger_setting, trigger_timer, trigger_setting_cnt, gw,
                   setting_by, n_writes>>

\* es_trigger_setting_gatt_write_cb receives a request (a condition byte and
\* len bytes of operand): the format check and, for an accepted request, the
\* stop of the fixed-interval timer and atomic_inc(&chrc->trigger_setting_cnt).
WriteCall ==
    /\ gw.pc = "idle"
    /\ n_writes < EssMaxWrites
    /\ n_writes' = n_writes + 1
    /\ \E c \in WriteConditions, len \in WriteLens, o \in EssOperands :
         LET r == es_trigger_setting_chk_format(CpfFormat(ess_chrc), c, len)
         IN  /\ len = 0 => o = 0
             /\ IF r.ok
                THEN /\ trigger_timer' =
                          IF trigger_setting.condition = ES_TRIGGER_FIXED_TIME
                          THEN TimerResume(trigger_timer, FALSE, 0)
                          ELSE trigger_timer
                     /\ trigger_setting_cnt' = trigger_setting_cnt + 1
                     /\ gw' = [NoGw EXCEPT !.pc = "cond", !.condition = c,
                                           !.operand = o, !.sz_operand = r.sz,
                                           !.id = n_writes + 1]
                ELSE /\ gw' = [NoGw EXCEPT !.pc = "ret", !.rc = r.err]
                     /\ UNCHANGED <<trigger_timer, trigger_setting_cnt>>
    /\ UNCHANGED <<gapVars, iaqVars, ess_chrc, value, value_ts, ccc_notify,
                   trigger_setting, upd, setting_by>>

\* trigger_setting->condition = condition
WriteCondition ==
    /\ gw.pc = "cond"
    /\ trigger_setting' = [trigger_setting EXCEPT !.condition = gw.condition]
    /\ setting_by' = [setting_by EXCEPT !.condition = gw.id]
    /\ gw' = [gw EXCEPT !.pc = IF NoOperand(gw.condition) THEN "resume" ELSE "operand"]
    /\ UNCHANGED <<gapVars, iaqVars, ess_chrc, value, value_ts, ccc_notify,
                   trigger_timer, trigger_setting_cnt, upd, n_writes>>

\* The switch that stores the operand: seconds from sys_get_le24, or the
\* member of the characteristic's format from sys_get_le16 / sys_get_le32.
WriteOperand ==
    /\ gw.pc = "operand"
    /\ trigger_setting' =
         [trigger_setting EXCEPT !.operand =
            IF TimeBased(gw.condition)
            THEN StoreSeconds(@, gw.operand)
            ELSE StoreValue(CpfFormat(ess_chrc), @, gw.operand)]
    /\ setting_by' = [setting_by EXCEPT !.operand = gw.id]
    /\ gw' = [gw EXCEPT !.pc = "resume"]
    /\ UNCHANGED <<gapVars, iaqVars, ess_chrc, value, value_ts, ccc_notify,
                   trigger_timer, trigger_setting_cnt, upd, n_writes>>

\* The timer is started with the new interval when the condition is
\* ES_TRIGGER_FIXED_TIME and a peer has notifications enabled; return sz_pdu.
WriteResume ==
    /\ gw.pc = "resume"
    /\ trigger_timer' =
         IF trigger_setting.condition = ES_TRIGGER_FIXED_TIME /\ ccc_notify # 0
         THEN TimerResume(trigger_timer, TRUE, OperandSeconds(trigger_setting.operand))
         ELSE trigger_timer
    /\ gw' = [gw EXCEPT !.pc = "ret", !.rc = "sz_pdu"]
    /\ UNCHANGED <<gapVars, iaqVars, ess_chrc, value, value_ts, ccc_notify,
                   trigger_setting, trigger_setting_cnt, upd, setting_by,
                   n_writes>>

\* es_trigger_setting_gatt_write_cb has returned.
WriteReturn ==
    /\ gw.pc = "ret"
    /\ gw' = NoGw
    /\ UNCHANGED <<gapVars, iaqVars, ess_chrc, value, value_ts, ccc_notify,
                   trigger_setting, trigger_timer, trigger_setting_cnt, upd,
                   setting_by, n_writes>>

\* ess_chrc_gatt_ccc_changed_cb with the CCC value v, on the work queue that
\* also runs the write callback: not while a write request is being handled.
CccChanged ==
    /\ gw.pc = "idle"
    /\ \E v \in {0, BT_GATT_CCC_NOTIFY, BT_GATT_CCC_NOTIFY + 1} :
         LET on == v = BT_GATT_CCC_NOTIFY
         IN  /\ ccc_notify' = IF on THEN 1 ELSE 0
             /\ trigger_timer' =
                  IF trigger_setting.condition = ES_TRIGGER_FIXED_TIME
                  THEN TimerResume(trigger_timer, on,
                                   OperandSeconds(trigger_setting.operand))
                  ELSE trigger_timer
    /\ UNCHANGED <<gapVars, iaqVars, ess_chrc, value, value_ts, trigger_setting,
                   trigger_setting_cnt, upd, gw, setting_by, n_writes>>

\* ess_chrc_trigger_setting_timeout: the running timer expires and the value
\* is handed to bt_gatt_notify. k_timer_start was given the same timeout as
\* duration and as period: with K_SECONDS(0) the period is K_NO_WAIT, which
\* makes a one-shot timer, stopped once it has expired.
TimerExpiry ==
    /\ trigger_timer.running
    /\ trigger_timer' = [trigger_timer EXCEPT !.expired = TRUE,
                                             !.running = TimerRearmed(trigger_timer)]
    /\ UNCHANGED <<gapVars, iaqVars, ess_chrc, value, value_ts, ccc_notify,
                   trigger_setting, trigger_setting_cnt, upd, gw, setting_by,
                   n_writes>>

NextEss ==
    \/ UpdateCall
    \/ UpdateCcc
    \/ UpdateReadCnt
    \/ UpdateReadCondition
    \/ UpdateReadOperand
    \/ UpdateRecheck
    \/ UpdateEval
    \/ UpdateReturn
    \/ WriteCall
    \/ WriteCondition
    \/ WriteOperand
    \/ WriteResume
    \/ WriteReturn
    \/ CccChanged
    \/ TimerExpiry

SpecEss == InitEss /\ [][NextEss]_vars

(* -------------------------- BSEC control loop -------------------------- *)
\* Status codes of the BME68X Sensor API and of BSEC: an error, success, a
\* warning.
Statuses == {-1, 0, 1}

\* The for loop of bme68x_iaq_run left on every non-zero status.
LoopContinues_ZeroOnly(ret) == ret = 0

\* for (int ret = 0; ret >= 0;)
LoopContinues(ret) == ret >= 0

\* Before bme68x_iaq_run is called.
InitIaq ==
    /\ GapIdle
    /\ EssIdle
    /\ IaqIdle

\* bme68x_iaq_run is called: int ret = 0.
IaqRun ==
    /\ q_pc = "off"
    /\ q_pc' = "top"
    /\ q_ret' = 0
    /\ UNCHANGED <<gapVars, essVars, nvsVars, q_hist, q_iter>>

\* The loop condition, then ret = 0 and the rendez-vous test: too early, the
\* iteration ends with continue. sensor_settings.next_call is 0 in the first
\* iteration.
IaqTop ==
    /\ q_pc = "top"
    /\ IF LoopContinues(q_ret)
       THEN /\ q_iter < IaqMaxIter
            /\ q_iter' = q_iter + 1
            /\ q_ret' = 0
            /\ \E early \in BOOLEAN :
                 /\ early => q_iter > 0
                 /\ q_hist' = [NoIter EXCEPT !.too_early = early]
                 /\ q_pc' = IF early THEN "top" ELSE "control"
       ELSE /\ q_pc' = "returned"
            /\ UNCHANGED <<q_ret, q_hist, q_iter>>
    /\ UNCHANGED <<gapVars, essVars, nvsVars>>

\* ret = bsec_sensor_control(...); a non-zero status or no measurement
\* requested goes to iaq_loop_next.
IaqControl ==
    /\ q_pc = "control"
    /\ \E r \in Statuses, wanted \in BOOLEAN :
         /\ r # 0 => ~wanted
         /\ q_ret' = r
         /\ q_hist' = [q_hist EXCEPT !.control = <<r>>, !.wanted = wanted]
         /\ q_pc' = IF r = 0 /\ wanted THEN "trigger" ELSE "next"
    /\ UNCHANGED <<gapVars, essVars, nvsVars, q_iter>>

\* ret = iaq_bsec_trigger_measurement(...): the first non-zero status of
\* bme68x_set_conf, bme68x_set_heatr_conf, bme68x_set_op_mode, or 0.
IaqTrigger ==
    /\ q_pc = "trigger"
    /\ \E r \in Statuses :
         /\ q_ret' = r
         /\ q_hist' = [q_hist EXCEPT !.trigger = <<r>>]
         /\ q_pc' = IF r # 0 THEN "next" ELSE "sample"
    /\ UNCHANGED <<gapVars, essVars, nvsVars, q_iter>>

\* k_sleep, then ret = iaq_next_sample(...): bme68x_get_data, then
\* bsec_do_steps when the data was read, then the outputs counted.
IaqSample ==
    /\ q_pc = "sample"
    /\ \E d \in Statuses :
         IF d # 0
         THEN /\ q_ret' = d
              /\ q_hist' = [q_hist EXCEPT !.data = <<d>>]
              /\ q_pc' = "next"
         ELSE \E s \in Statuses, n \in 0 .. 1 :
                /\ s # 0 => n = 0
                /\ q_ret' = s
                /\ q_hist' = [q_hist EXCEPT !.data = <<d>>, !.steps = <<s>>,
                                            !.cnt_outputs = n]
                /\ q_pc' = IF s # 0 THEN "next" ELSE "handler"
    /\ UNCHANGED <<gapVars, essVars, nvsVars, q_iter>>

\* if (iaq_sample.cnt_outputs) iaq_output_handler(&iaq_sample);
IaqHandler ==
    /\ q_pc = "handler"
    /\ q_hist' = IF q_hist.cnt_outputs # 0
                 THEN [q_hist EXCEPT !.handler_calls = @ + 1]
                 ELSE q_hist
    /\ q_pc' = "next"
    /\ UNCHANGED <<gapVars, essVars, nvsVars, q_ret, q_iter>>

\* iaq_loop_next: continue on a negative ret, else sleep until the next
\* rendez-vous; both go to the loop condition.
IaqNext ==
    /\ q_pc = "next"
    /\ q_pc' = "top"
    /\ UNCHANGED <<gapVars, essVars, nvsVars, q_ret, q_hist, q_iter>>

NextIaq ==
    \/ IaqRun
    \/ IaqTop
    \/ IaqControl
    \/ IaqTrigger
    \/ IaqSample
    \/ IaqHandler
    \/ IaqNext

SpecIaq == InitIaq /\ [][NextIaq]_vars

(* ------------------ BSEC state in NVS: the operations ------------------ *)
\* Lengths handed to bme68x_iaq_nvs_write_state (uint32_t len).
NvsLens == 0 .. NvsMaxLen

\* nvs_write(fs, id, data, len): an error leaves the element as it was; a
\* length of 0 is the delete entry (nvs_delete is nvs_write with len 0);
\* else the element holds the data.
nvs_write(elem, content, len, ok) ==
    IF ~ok THEN elem ELSE IF len = 0 THEN ABSENT ELSE <<content>>

\* write_bsec_state_blob, write_bsec_state_len: the error of nvs_write, or 0
\* (bytes written, or nothing written for the same data).
WriteStatus(ok) == IF ok THEN RC_OK ELSE EIO

\* nvs_delete on an element: an error leaves it as it was.
nvs_delete(elem, ok) == IF ok THEN ABSENT ELSE elem

\* What nvs_delete may return: an error, 0, or -ENOENT for an element the
\* file system does not hold.
DeleteStatuses(elem) == IF elem = ABSENT THEN {RC_OK, ENOENT, EIO} ELSE {RC_OK, EIO}

\* if (!ret || (ret == -ENOENT))
BlobDeletable(ret) == ret = RC_OK \/ ret = ENOENT

\* nvs_read: -ENOENT for an element not held, an error, or the size of the
\* element's data.
ReadStatuses(elem) == IF elem = ABSENT THEN {ENOENT, EIO} ELSE {RC_OK, EIO}

\* read_bsec_state_len, read_bsec_state_blob: 0 when nvs_read returned the
\* number of bytes asked for, its error when negative, else -ERANGE.
ReadStatus(rc, size, asked) ==
    IF rc # RC_OK THEN rc ELSE IF size = asked THEN RC_OK ELSE ERANGE

\* if (ret == -ENOENT) ret = -EINVAL;
BlobStatus(ret) == IF ret = ENOENT THEN EINVAL ELSE ret

\* One access to the file system, as the call's log keeps it.
Access(elem, op, rc) == [elem |-> elem, op |-> op, rc |-> rc]

\* A mounted file system that may hold a state saved by write_state, no call
\* made.
InitNvs ==
    /\ GapIdle
    /\ EssIdle
    /\ RunIdle
    /\ \E l \in 1 .. NvsMaxLen :
         \/ nvs_len = ABSENT /\ nvs_blob = ABSENT
         \/ nvs_len = <<l>> /\ nvs_blob = <<l>>
    /\ nv = NoNv
    /\ nv_calls = 0

\* bme68x_iaq_nvs_write_state(data, len) is called.
NvsWriteCall ==
    /\ nv.pc = "idle"
    /\ nv_calls < NvsMaxCalls
    /\ nv_calls' = nv_calls + 1
    /\ \E len \in NvsLens :
         nv' = [NoNv EXCEPT !.pc = "w_blob", !.op = "write", !.len = len]
    /\ UNCHANGED <<gapVars, essVars, runVars, nvs_len, nvs_blob>>

\* int ret = write_bsec_state_blob(data, len);
NvsWriteBlob ==
    /\ nv.pc = "w_blob"
    /\ \E ok \in BOOLEAN :
         /\ nvs_blob' = nvs_write(nvs_blob, nv.len, nv.len, ok)
         /\ nv' = [nv EXCEPT !.ret = WriteStatus(ok),
                             !.log = Append(@, Access("blob", "write", WriteStatus(ok))),
                             !.pc = IF WriteStatus(ok) = RC_OK THEN "w_len" ELSE "ret"]
    /\ UNCHANGED <<gapVars, essVars, runVars, nvs_len, nv_calls>>

\* ret = write_bsec_state_len(len): the four bytes of len are the data.
NvsWriteLen ==
    /\ nv.pc = "w_len"
    /\ \E ok \in BOOLEAN :
         /\ nvs_len' = nvs_write(nvs_len, nv.len, SZ_STATE_LEN, ok)
         /\ nv' = [nv EXCEPT !.ret = WriteStatus(ok),
                             !.log = Append(@, Access("len", "write", WriteStatus(ok))),
                             !.pc = "ret"]
    /\ UNCHANGED <<gapVars, essVars, runVars, nvs_blob, nv_calls>>

\* bme68x_iaq_nvs_delete_state() is called.
NvsDeleteCall ==
    /\ nv.pc = "idle"
    /\ nv_calls < NvsMaxCalls
    /\ nv_calls' = nv_calls + 1
    /\ nv' = [NoNv EXCEPT !.pc = "d_len", !.op = "delete"]
    /\ UNCHANGED <<gapVars, essVars, runVars, nvs_len, nvs_blob>>

\* int ret = delete_bsec_state_len();
NvsDeleteLen ==
    /\ nv.pc = "d_len"
    /\ \E rc \in DeleteStatuses(nvs_len) :
         /\ nvs_len' = nvs_delete(nvs_len, rc = RC_OK)
         /\ nv' = [nv EXCEPT !.ret = rc,
                             !.log = Append(@, Access("len", "delete", rc)),
                             !.pc = IF BlobDeletable(rc) THEN "d_blob" ELSE "ret"]
    /\ UNCHANGED <<gapVars, essVars, runVars, nvs_blob, nv_calls>>

\* ret = delete_bsec_state_blob();
NvsDeleteBlob ==
    /\ nv.pc = "d_blob"
    /\ \E rc \in DeleteStatuses(nvs_blob) :
         /\ nvs_blob' = nvs_delete(nvs_blob, rc = RC_OK)
         /\ nv' = [nv EXCEPT !.ret = rc,
                             !.log = Append(@, Access("blob", "delete", rc)),
                             !.pc = "ret"]
    /\ UNCHANGED <<gapVars, essVars, runVars, nvs_len, nv_calls>>

\* bme68x_iaq_nvs_read_state(data, len) is called.
NvsReadCall ==
    /\ nv.pc = "idle"
    /\ nv_calls < NvsMaxCalls
    /\ nv_calls' = nv_calls + 1
    /\ nv' = [NoNv EXCEPT !.pc = "r_len", !.op = "read"]
    /\ UNCHANGED <<gapVars, essVars, runVars, nvs_len, nvs_blob>>

\* int ret = read_bsec_state_len(len): *len is the element's data.
NvsReadLen ==
    /\ nv.pc = "r_len"
    /\ \E rc \in ReadStatuses(nvs_len) :
         LET ret == ReadStatus(rc, SZ_STATE_LEN, SZ_STATE_LEN) IN
         nv' = [nv EXCEPT !.ret = ret,
                          !.out_len = IF rc = RC_OK THEN nvs_len ELSE ABSENT,
                          !.log = Append(@, Access("len", "read", ret)),
                          !.pc = IF ret = RC_OK THEN "r_blob" ELSE "ret"]
    /\ UNCHANGED <<gapVars, essVars, runVars, nvs_len, nvs_blob, nv_calls>>

\* ret = read_bsec_state_blob(data, *len), -ENOENT turned into -EINVAL.
NvsReadBlob ==
    /\ nv.pc = "r_blob"
    /\ \E rc \in ReadStatuses(nvs_blob) :
         LET size == IF nvs_blob = ABSENT THEN 0 ELSE nvs_blob[1]
             ret == ReadStatus(rc, size, nv.out_len[1]) IN
         nv' = [nv EXCEPT !.ret = BlobStatus(ret),
                          !.log = Append(@, Access("blob", "read", ret)),
                          !.pc = "ret"]
    /\ UNCHANGED <<gapVars, essVars, runVars, nvs_len, nvs_blob, nv_calls>>

\* return ret;
NvsReturn ==
    /\ nv.pc = "ret"
    /\ nv' = NoNv
    /\ UNCHANGED <<gapVars, essVars, runVars, nvs_len, nvs_blob, nv_calls>>

NextNvs ==
    \/ NvsWriteCall
    \/ NvsWriteBlob
    \/ NvsWriteLen
    \/ NvsDeleteCall
    \/ NvsDeleteLen
    \/ NvsDeleteBlob
    \/ NvsReadCall
    \/ NvsReadLen
    \/ NvsReadBlob
    \/ NvsReturn

SpecNvs == InitNvs /\ [][NextNvs]_vars

(* ------------------------ vocabulary of the claims --------------------- *)
\* Positions between taking and giving the semaphore.
InFlightPcs == {"body", "auto", "commit_flags", "commit_avail", "give"}
\* Positions where the transition's result is decided: the locals hold the pair
\* being committed and the return value is set.
DecidedPcs == {"commit_flags", "commit_avail", "give", "cb"}

CallerInFlight(t) == c_pc[t] \in InFlightPcs
WorkerInFlight == w_pc \in InFlightPcs
CallerDecided(t) == c_pc[t] \in DecidedPcs
WorkerDecided == w_pc \in DecidedPcs
NumInFlight ==
    Cardinality({t \in Threads : CallerInFlight(t)}) + (IF WorkerInFlight THEN 1 ELSE 0)

InFlags(h) == h.in[1]
InAvail(h) == h.in[2]
AdvBit(f) == HasFlag(f, BME68X_GAP_STATE_ADV_CONN)
ConnBit(f) == HasFlag(f, BME68X_GAP_STATE_CONNECTED)
ErrBit(f) == HasFlag(f, BME68X_GAP_STATE_ENETDOWN)
AutoBit(f) == HasFlag(f, BME68X_GAP_CFG_ADV_AUTO)
\* flags without the advertising bit and the error bit
OtherBits(f) ==
    f - (IF AdvBit(f) THEN BME68X_GAP_STATE_ADV_CONN ELSE 0)
      - (IF ErrBit(f) THEN BME68X_GAP_STATE_ENETDOWN ELSE 0)

\* The call of thread t left the state as it found it: its locals are the pair
\* it read, and once it has given the semaphore, conn_mgr held that pair and
\* the semaphore was taken and given once.
CallLeftStateAsRead(t) ==
    /\ Pair(c_flags[t], c_conn_avail[t]) = c_hist[t].in
    /\ c_pc[t] = "cb" =>
         /\ c_hist[t].wrote = c_hist[t].in
         /\ c_hist[t].took = 1
         /\ c_hist[t].gave = 1

(* -------------------------------- C1 ----------------------------------- *)
\* C1: in every reachable state conn_mgr.conn_avail lies in 0 .. MAX_SLOTS,
\* whatever sequence of calls and events led there (no wrap to 255 on a
\* Connected event, no value above MAX_SLOTS on a SlotRecycled event).
C1_SlotsWithinRange == conn_avail \in 0 .. max_conn

C4_BusyStep(t) ==
    (c_pc[t] = "idle" /\ c_pc'[t] # "idle" /\ state_lock = 0) =>
       /\ c_pc'[t] = "ret"
       /\ c_rc'[t] = EBUSY
       /\ UNCHANGED <<flags, conn_avail, state_lock>>
       /\ c_hist'[t] = NoHist

C5_AlreadyAdvertising ==
    \A t \in Threads :
      (CallerDecided(t) /\ AdvBit(InFlags(c_hist[t]))) =>
         /\ c_rc[t] = EADDRINUSE
         /\ c_hist[t].adv_calls = 0
         /\ CallLeftStateAsRead(t)

\* A call that found the manager advertising has committed and released.
C5_Witness ==
    \E t \in Threads :
      /\ c_pc[t] = "cb"
      /\ AdvBit(InFlags(c_hist[t]))
      /\ c_rc[t] = EADDRINUSE

(* -------------------------------- C6 ----------------------------------- *)
\* C6: a call that took the semaphore and read the advertising bit clear and
\* conn_avail == 0 returns the no-free-connection result (-ECONNREFUSED), does
\* not invoke bt_le_adv_start, commits the pair it read (the error bit
\* included) and has given the semaphore back.
C6_NoSlotsAvailable ==
    \A t \in Threads :
      (CallerDecided(t) /\ ~AdvBit(InFlags(c_hist[t])) /\ InAvail(c_hist[t]) = 0) =>
         /\ c_rc[t] = ECONNREFUSED
         /\ c_hist[t].adv_calls = 0
         /\ CallLeftStateAsRead(t)

\* A call that found no free connection has committed and released.
C6_Witness ==
    \E t \in Threads :
      /\ c_pc[t] = "cb"
      /\ ~AdvBit(InFlags(c_hist[t]))
      /\ InAvail(c_hist[t]) = 0
      /\ c_rc[t] = ECONNREFUSED

(* -------------------------------- C7 ----------------------------------- *)
\* C7: the result of a call that ends on conn_avail == 0 differs
\* from the result of a call whose bt_le_adv_start failed, so that the return
\* value alone tells slot exhaustion from subsystem failure.
C7_ExhaustionDiffersFromFailure ==
    \A t \in Threads :
      (CallerDecided(t) /\ ~AdvBit(InFlags(c_hist[t])) /\ InAvail(c_hist[t]) = 0) =>
         c_rc[t] # conn_mgr_adv_start(InFlags(c_hist[t]), TRUE).rc

(* -------------------------------- C8 ----------------------------------- *)
\* C8: a call that took the semaphore and read the advertising bit clear and
\* conn_avail > 0 invokes bt_le_adv_start exactly once; when it succeeds the
\* call returns 0 and commits the error bit clear, the advertising bit set,
\* every other bit of flags and conn_avail as read.
C8_StartsAdvertising ==
    \A t \in Threads :
      (CallerDecided(t) /\ ~AdvBit(InFlags(c_hist[t])) /\ InAvail(c_hist[t]) # 0) =>
         /\ c_hist[t].adv_calls = 1
         /\ ~c_hist[t].adv_err =>
              /\ c_rc[t] = RC_OK
              /\ AdvBit(c_flags[t])
              /\ ~ErrBit(c_flags[t])
              /\ ConnBit(c_flags[t]) = ConnBit(InFlags(c_hist[t]))
              /\ OtherBits(c_flags[t]) = OtherBits(InFlags(c_hist[t]))
              /\ c_conn_avail[t] = InAvail(c_hist[t])
              /\ c_pc[t] = "cb" =>
                   /\ c_hist[t].wrote = Pair(c_flags[t], c_conn_avail[t])
                   /\ c_hist[t].took = 1
                   /\ c_hist[t].gave = 1

\* A successful call that found the error bit set has committed.
C8_Witness ==
    \E t \in Threads :
      /\ c_pc[t] = "cb"
      /\ c_rc[t] = RC_OK
      /\ ErrBit(InFlags(c_hist[t]))
      /\ ~ErrBit(flags)
      /\ AdvBit(flags)

(* -------------------------------- C9 ----------------------------------- *)
\* A call whose bt_le_adv_start failed returns -ECONNREFUSED and commits the
\* error bit set and the advertising bit clear.
C9_FailedCall(t) ==
    (CallerDecided(t) /\ c_hist[t].adv_err) =>
       /\ c_rc[t] = ECONNREFUSED
       /\ ErrBit(c_flags[t])
       /\ ~AdvBit(c_flags[t])
       /\ c_conn_avail[t] = InAvail(c_hist[t])
       /\ c_pc[t] = "cb" => c_hist[t].wrote = Pair(c_flags[t], c_conn_avail[t])

\* The error bit of conn_mgr.flags is cleared only by the commit of a
\* transition whose bt_le_adv_start succeeded, which sets the advertising bit.
C9_ErrBitCleared ==
    (ErrBit(flags) /\ ~ErrBit(flags')) =>
       /\ AdvBit(flags')
       /\ \/ \E t \in Threads :
               /\ c_pc[t] = "commit_flags"
               /\ c_hist[t].adv_calls = 1
               /\ ~c_hist[t].adv_err
          \/ /\ w_pc = "commit_flags"
             /\ w_hist.adv_calls = 1
             /\ ~w_hist.adv_err

\* C9 as stated, the retry: a Worker transition that reads the error bit set
\* with auto-resume configured and conn_avail > 0 invokes bt_le_adv_start.
C9_RetryWhenSlotsBefore ==
    (/\ WorkerDecided
     /\ ErrBit(InFlags(w_hist))
     /\ AutoBit(InFlags(w_hist))
     /\ InAvail(w_hist) > 0) => w_hist.adv_calls = 1

\* The retry as the code does it: conn_avail is tested after the event's own
\* update (a Connected event that takes the last slot does not retry).
C9_RetryWhenSlotsAfter ==
    (/\ WorkerDecided
     /\ ErrBit(InFlags(w_hist))
     /\ AutoBit(InFlags(w_hist))
     /\ w_conn_avail # 0) =>
       /\ w_hist.adv_calls = 1
       /\ ~w_hist.adv_err => (~ErrBit(w_flags) /\ AdvBit(w_flags))
       /\ w_hist.adv_err => (ErrBit(w_flags) /\ ~AdvBit(w_flags))

\* C9 amended: a failed bt_le_adv_start inside the call gives -ECONNREFUSED
\* with the error bit committed set and the advertising bit clear; the error
\* bit stays set until a bt_le_adv_start succeeds; with auto-resume
\* configured, the next event the Worker processes retries bt_le_adv_start
\* when conn_avail > 0 after that event's update, and a success clears the
\* error bit and sets the advertising bit.
C9_FailureThenRetry ==
    /\ [](\A t \in Threads : C9_FailedCall(t))
    /\ [][C9_ErrBitCleared]_vars
    /\ []C9_RetryWhenSlotsAfter

\* The Worker's retry has succeeded on a state that had the error bit set.
C9_Witness ==
    /\ w_pc = "cb"
    /\ ErrBit(InFlags(w_hist))
    /\ w_hist.adv_calls = 1
    /\ ~w_hist.adv_err
    /\ ~ErrBit(flags)
    /\ AdvBit(flags)

(* -------------------------------- C10 ---------------------------------- *)
\* C10: a call that takes the semaphore right after a call that returned 0
\* (no transition committed in between) reads what that call committed,
\* returns -EADDRINUSE and commits the pair it read.
C10_SecondCallAlreadyAdvertising ==
    \A t \in Threads :
      (CallerDecided(t) /\ c_hist[t].pred) =>
         /\ AdvBit(InFlags(c_hist[t]))
         /\ c_pc[t] # "cb" => c_hist[t].in = Pair(seq.flags, seq.conn_avail)
         /\ c_rc[t] = EADDRINUSE
         /\ c_hist[t].adv_calls = 0
         /\ CallLeftStateAsRead(t)

\* The second of two calls in a row has committed.
C10_Witness ==
    \E t \in Threads :
      /\ c_pc[t] = "cb"
      /\ c_hist[t].pred
      /\ c_rc[t] = EADDRINUSE
      /\ c_hist[t].wrote = c_hist[t].in

(* -------------------------------- C11 ---------------------------------- *)
\* The Worker is processing a connection event: succeeded or failed.
WorkerOnConnection(failed) ==
    /\ w_msg.event = CONN_MGR_EVT_CONNECTION
    /\ w_msg.err = failed
\* flags without the advertising bit and the connected bit
StateBitsCleared(f) ==
    ClearFlag(ClearFlag(f, BME68X_GAP_STATE_ADV_CONN), BME68X_GAP_STATE_CONNECTED)

\* C11: a successful connection event, before the auto-resume check, has
\* cleared the advertising bit, set the connected bit and decremented
\* conn_avail by one (as a uint8_t), the other bits untouched; with
\* CONFIG_BT_MAX_CONN = 1 and the manager advertising, the transition commits
\* advertising clear, connected set, conn_avail = 0; a call of
\* bme68x_esp_gap_adv_start that reads such a state returns -ECONNREFUSED (the
\* result for no free connection) without invoking bt_le_adv_start.
C11_ConnectedSuccess ==
    /\ (w_pc = "auto" /\ WorkerOnConnection(FALSE)) =>
          /\ ~AdvBit(w_flags)
          /\ ConnBit(w_flags)
          /\ w_conn_avail = Dec8(InAvail(w_hist))
          /\ InAvail(w_hist) > 0 => w_conn_avail = InAvail(w_hist) - 1
          /\ StateBitsCleared(w_flags) = StateBitsCleared(InFlags(w_hist))
          /\ w_hist.unrefs = 0
    /\ (/\ w_pc = "cb" /\ WorkerOnConnection(FALSE)
        /\ max_conn = 1 /\ AdvBit(InFlags(w_hist)) /\ InAvail(w_hist) = 1) =>
          /\ w_hist.wrote = Pair(flags, conn_avail)
          /\ w_hist.wrote[2] = 0
          /\ ~AdvBit(w_hist.wrote[1])
          /\ ConnBit(w_hist.wrote[1])
          /\ w_hist.adv_calls = 0
    /\ \A t \in Threads :
         (/\ CallerDecided(t) /\ ~AdvBit(InFlags(c_hist[t]))
          /\ ConnBit(InFlags(c_hist[t])) /\ InAvail(c_hist[t]) = 0) =>
            /\ c_rc[t] = ECONNREFUSED
            /\ c_hist[t].adv_calls = 0

\* With CONFIG_BT_MAX_CONN = 1, a call has read the state a successful
\* connection event committed and has returned -ECONNREFUSED.
C11_Witness ==
    \E t \in Threads :
      /\ max_conn = 1
      /\ c_pc[t] = "cb"
      /\ c_rc[t] = ECONNREFUSED
      /\ ConnBit(InFlags(c_hist[t]))
      /\ ~AdvBit(InFlags(c_hist[t]))
      /\ InAvail(c_hist[t]) = 0
      /\ n_got = 1

(* -------------------------------- C12 ---------------------------------- *)
\* Messages put and not yet dispatched that make the Worker call
\* bt_conn_unref on connection c.
PendingUnrefs(c) ==
    Cardinality({i \in 1 .. Len(conn_mgr_msgq) :
                   conn_mgr_msgq[i].conn = c /\ EventUnref(conn_mgr_msgq[i])})
      + (IF w_pc = "take" /\ w_msg.conn = c /\ EventUnref(w_msg) THEN 1 ELSE 0)
\* References the manager has yet to release on c: the one of a connection
\* that is up, and those the pending messages will release.
Owed(c) == (IF link[c] = "up" THEN 1 ELSE 0) + PendingUnrefs(c)
\* Every callback fired so far had its message accepted by k_msgq_put.
NothingDropped == n_put = n_events

\* C12: a failed connection event, before the auto-resume check, has cleared
\* the advertising bit, decremented conn_avail by one (as a uint8_t), left the
\* connected bit and the other bits as read and called bt_conn_unref once on
\* its connection; when the notifications follow the life of a connection and
\* no message was dropped, the manager then holds no reference on that
\* connection beyond those of later notifications.
C12_ConnectedFailure ==
    /\ (w_pc = "auto" /\ WorkerOnConnection(TRUE)) =>
          /\ ~AdvBit(w_flags)
          /\ ConnBit(w_flags) = ConnBit(InFlags(w_hist))
          /\ w_conn_avail = Dec8(InAvail(w_hist))
          /\ InAvail(w_hist) > 0 => w_conn_avail = InAvail(w_hist) - 1
          /\ ClearFlag(w_flags, BME68X_GAP_STATE_ADV_CONN)
               = ClearFlag(InFlags(w_hist), BME68X_GAP_STATE_ADV_CONN)
          /\ w_hist.unrefs = 1
    /\ (/\ w_pc \in {"auto"} \cup DecidedPcs /\ WorkerOnConnection(TRUE)
        /\ wf /\ NothingDropped) =>
          refs[w_msg.conn] = Owed(w_msg.conn)

\* A failed connection on a fresh manager has been committed: connected bit
\* clear, one slot spent, no reference held on the connection.
C12_Witness ==
    /\ w_pc = "cb"
    /\ WorkerOnConnection(TRUE)
    /\ n_got = 1
    /\ ~ConnBit(flags)
    /\ conn_avail = max_conn - 1
    /\ refs[w_msg.conn] = 0
    /\ Owed(w_msg.conn) = 0
    /\ wf

(* -------------------------------- C13 ---------------------------------- *)
WorkerOnEvent(ev) == w_msg.event = ev
WorkerPastDispatch == w_pc \in {"auto"} \cup DecidedPcs

\* With CONFIG_BT_MAX_CONN = 1: a disconnection read on (connected, 0)
\* clears the connected bit and leaves conn_avail = 0 and the advertising bit.
C13_Disconnected ==
    (/\ max_conn = 1 /\ WorkerDecided /\ WorkerOnEvent(CONN_MGR_EVT_DISCONNECTION)
     /\ ConnBit(InFlags(w_hist)) /\ InAvail(w_hist) = 0) =>
       /\ ~ConnBit(w_flags)
       /\ w_conn_avail = 0
       /\ w_hist.adv_calls = 0
       /\ AdvBit(w_flags) = AdvBit(InFlags(w_hist))

\* With CONFIG_BT_MAX_CONN = 1: the recycled event read on what the
\* disconnection committed (connected clear, 0) gives conn_avail = 1 with the
\* connected bit clear; with auto-resume and the advertising bit clear
\* bt_le_adv_start is invoked once and its success sets the advertising bit;
\* without auto-resume it is not invoked and the advertising bit is as read.
C13_Recycled ==
    (/\ max_conn = 1 /\ WorkerDecided /\ WorkerOnEvent(CONN_MGR_EVT_CONN_RECYCLED)
     /\ ~ConnBit(InFlags(w_hist)) /\ InAvail(w_hist) = 0) =>
       /\ ~ConnBit(w_flags)
       /\ w_conn_avail = 1
       /\ (AutoBit(InFlags(w_hist)) /\ ~AdvBit(InFlags(w_hist))) =>
             /\ w_hist.adv_calls = 1
             /\ ~w_hist.adv_err => AdvBit(w_flags)
       /\ ~AutoBit(InFlags(w_hist)) =>
             /\ w_hist.adv_calls = 0
             /\ AdvBit(w_flags) = AdvBit(InFlags(w_hist))
       /\ w_pc = "cb" => w_hist.wrote = Pair(w_flags, w_conn_avail)

\* Without auto-resume no event makes the Worker invoke bt_le_adv_start.
C13_NoResumeUnlessConfigured ==
    (WorkerDecided /\ ~AutoBit(InFlags(w_hist))) =>
       /\ w_hist.adv_calls = 0
       /\ AdvBit(InFlags(w_hist)) \/ ~AdvBit(w_flags)

\* With no call of bme68x_esp_gap_adv_start, the advertising bit of
\* conn_mgr.flags goes from clear to set only by the commit of a Worker
\* transition that ran the auto-resume, which needs it configured.
C13_AdvBitSetByResume ==
    (~AdvBit(flags) /\ AdvBit(flags')) =>
       /\ AutoBit(flags)
       /\ w_pc = "commit_flags"
       /\ w_hist.adv_calls = 1
       /\ ~w_hist.adv_err

\* C13: with CONFIG_BT_MAX_CONN = 1 and one connected peer (conn_avail = 0),
\* the disconnection then the recycled event give conn_avail = 1 with the
\* connected bit clear; with auto-resume the recycled transition sets the
\* advertising bit when bt_le_adv_start succeeds, with no call of
\* bme68x_esp_gap_adv_start; without auto-resume the advertising bit stays
\* clear through every further event as long as bme68x_esp_gap_adv_start is
\* not called.
C13_DisconnectThenRecycle ==
    /\ []C13_Disconnected
    /\ []C13_Recycled
    /\ []C13_NoResumeUnlessConfigured
    /\ [][C13_AdvBitSetByResume]_vars

\* Connected, disconnected, recycled in that order on CONFIG_BT_MAX_CONN = 1
\* with auto-resume: the third transition has committed advertising set,
\* connected clear, conn_avail = 1.
C13_Witness ==
    /\ max_conn = 1
    /\ wf
    /\ w_pc = "cb"
    /\ WorkerOnEvent(CONN_MGR_EVT_CONN_RECYCLED)
    /\ w_msg.id = 3
    /\ InAvail(w_hist) = 0
    /\ AutoBit(flags)
    /\ AdvBit(flags)
    /\ ~ConnBit(flags)
    /\ conn_avail = 1

(* -------------------------------- C14 ---------------------------------- *)
\* C14: the pair committed by a connection transition never has both the
\* advertising bit and the connected bit set.
C14_NeverAdvertisingAndConnected ==
    (w_pc = "cb" /\ WorkerOnEvent(CONN_MGR_EVT_CONNECTION)) =>
       ~(AdvBit(w_hist.wrote[1]) /\ ConnBit(w_hist.wrote[1]))

\* C14 amended: a connection transition clears the advertising bit in its
\* dispatch, so that it is clear when the auto-resume check runs; the check
\* invokes bt_le_adv_start exactly when auto-resume is configured and
\* conn_avail is not zero after the decrement; the committed pair has both
\* bits set exactly when that invocation succeeded and the connected bit is
\* set (the connection succeeded or the bit was set already).
C14_AdvertisingAndConnectedByResume ==
    /\ (w_pc = "auto" /\ WorkerOnEvent(CONN_MGR_EVT_CONNECTION)) =>
          ~AdvBit(w_flags)
    /\ (WorkerDecided /\ WorkerOnEvent(CONN_MGR_EVT_CONNECTION)) =>
          /\ w_hist.adv_calls = 1 <=>
                (AutoBit(InFlags(w_hist)) /\ w_conn_avail # 0)
          /\ w_hist.adv_calls \in {0, 1}
          /\ ConnBit(w_flags) <=> (~w_msg.err \/ ConnBit(InFlags(w_hist)))
          /\ AdvBit(w_flags) <=> (w_hist.adv_calls = 1 /\ ~w_hist.adv_err)
    /\ (w_pc = "cb" /\ WorkerOnEvent(CONN_MGR_EVT_CONNECTION)) =>
          /\ w_hist.wrote = Pair(w_flags, w_conn_avail)
          /\ (AdvBit(w_hist.wrote[1]) /\ ConnBit(w_hist.wrote[1])) <=>
                /\ AutoBit(InFlags(w_hist))
                /\ w_hist.wrote[2] # 0
                /\ ~w_hist.adv_err
                /\ ~w_msg.err \/ ConnBit(InFlags(w_hist))

\* With CONFIG_BT_MAX_CONN = 2 and auto-resume, a successful connection has
\* committed advertising and connected both set, one slot left.
C14_Witness ==
    /\ w_pc = "cb"
    /\ WorkerOnConnection(FALSE)
    /\ max_conn = 2
    /\ InAvail(w_hist) = 2
    /\ AdvBit(flags)
    /\ ConnBit(flags)
    /\ conn_avail = 1

(* -------------------------------- C15 ---------------------------------- *)
\* Every message put has been processed and its transition committed.
WorkerQuiet == conn_mgr_msgq = <<>> /\ w_pc = "get"
\* Connections whose successful connection was notified and whose
\* disconnection was not.
PeersUp == {c \in Peers : link[c] = "up"}

\* C15: once the Worker has processed every notification (none dropped, each
\* in keeping with the life of its connection), the connected bit is set
\* exactly when some peer is connected; in particular it is clear when all
\* peers have disconnected and conn_avail is back to CONFIG_BT_MAX_CONN.
C15_ConnectedBitMeansPeerConnected ==
    (WorkerQuiet /\ wf /\ NothingDropped) =>
       /\ ConnBit(flags) <=> PeersUp # {}
       /\ (PeersUp = {} /\ conn_avail = max_conn) => ~ConnBit(flags)

(* -------------------------------- C16 ---------------------------------- *)
\* A call of thread t, about to invoke the callback, has taken and given the
\* semaphore once, has not invoked the callback yet, and hands it the pair
\* that was in conn_mgr when it gave the semaphore; once past it, the callback
\* was invoked once if the call took the semaphore and a callback is
\* registered, and not at all otherwise.
C16_Caller(t) ==
    /\ CallerInFlight(t) => c_hist[t].cb_calls = 0 /\ c_hist[t].gave = 0
    /\ c_pc[t] = "cb" =>
         /\ c_hist[t].took = 1
         /\ c_hist[t].gave = 1
         /\ c_hist[t].cb_calls = 0
         /\ CallbackArgs(c_flags[t], c_conn_avail[t], flags, conn_avail)
              = c_hist[t].wrote
    /\ c_pc[t] = "ret" =>
         /\ c_hist[t].gave = c_hist[t].took
         /\ c_hist[t].cb_calls =
              (IF cb_gap_state_changed /\ c_hist[t].took = 1 THEN 1 ELSE 0)

\* The same for a transition of the Worker.
C16_Worker ==
    /\ WorkerInFlight => w_hist.cb_calls = 0 /\ w_hist.gave = 0
    /\ w_pc = "cb" =>
         /\ w_hist.took = 1
         /\ w_hist.gave = 1
         /\ w_hist.cb_calls = 0
         /\ CallbackArgs(w_flags, w_conn_avail, flags, conn_avail) = w_hist.wrote
    /\ w_pc = "loop" =>
         /\ w_hist.took = 1
         /\ w_hist.gave = 1
         /\ w_hist.cb_calls = (IF cb_gap_state_changed THEN 1 ELSE 0)

\* C16: every Worker transition and every call of bme68x_esp_gap_adv_start
\* that took the semaphore invokes a registered callback exactly once, after
\* its k_sem_give, with the pair it committed; nothing is invoked when no
\* callback is registered or when the call returned -EBUSY.
C16_CallbackOncePerTransition ==
    /\ C16_Worker
    /\ \A t \in Threads : C16_Caller(t)

\* A Worker transition and a call have each gone through their callback.
C16_Witness ==
    /\ cb_gap_state_changed
    /\ w_pc = "loop"
    /\ w_hist.cb_calls = 1
    /\ \E t \in Threads : c_pc[t] = "ret" /\ c_hist[t].cb_calls = 1

(* -------------------------------- C17 ---------------------------------- *)
\* A Worker transition with auto-resume configured, whose bt_le_adv_start, if
\* invoked, succeeded, commits the advertising bit set or conn_avail = 0.
C17_Transition ==
    (/\ WorkerDecided
     /\ AutoBit(InFlags(w_hist))
     /\ w_hist.adv_calls = 1 => ~w_hist.adv_err) =>
       /\ AdvBit(w_flags) \/ w_conn_avail = 0
       /\ w_hist.adv_calls = 1 =>
            (w_conn_avail # 0 /\ AdvBit(w_flags) /\ ~ErrBit(w_flags))
       /\ w_pc = "cb" => w_hist.wrote = Pair(w_flags, w_conn_avail)

\* C17: with auto-resume configured and no call of bme68x_esp_gap_adv_start
\* after initialisation, every state the Worker commits while bt_le_adv_start
\* succeeds (the error bit is clear) has the advertising bit set or
\* conn_avail = 0: the manager is advertising whenever a slot is free.
C17_AdvertisingWheneverSlotFree ==
    /\ C17_Transition
    /\ (state_lock = 1 /\ AutoBit(flags) /\ ~ErrBit(flags)) =>
          (AdvBit(flags) \/ conn_avail = 0)

\* A peer has connected, disconnected and had its slot recycled, and the
\* manager advertises again with every slot free.
C17_Witness ==
    /\ w_pc = "loop"
    /\ n_got = 3
    /\ wf
    /\ NothingDropped
    /\ ended = 0
    /\ PeersUp = {}
    /\ AutoBit(flags)
    /\ AdvBit(flags)
    /\ conn_avail = max_conn

(* -------------------------------- C18 ---------------------------------- *)
\* C18: whatever the notifications, as long as they follow the life of each
\* connection, the manager never releases a reference it does not hold and
\* holds exactly the references of the connections that are up and of the
\* messages whose transition has yet to release one: every reference taken by
\* cb_conn_connected is released exactly once, none stays held once the
\* connection has ended and its messages were processed.
C18_ReferencesReleasedOnce ==
    wf => \A c \in Peers : refs[c] >= 0 /\ refs[c] = Owed(c)

(* -------------------------------- C19 ---------------------------------- *)
\* The messages in the queue are those put after the ones already taken, in
\* the order they were put; the message the Worker holds is the one it took
\* last.
C19_QueueInOrder ==
    /\ n_put = n_got + Len(conn_mgr_msgq)
    /\ \A i \in 1 .. Len(conn_mgr_msgq) : conn_mgr_msgq[i].id = n_got + i
    /\ w_pc \in {"take", "auto"} \cup DecidedPcs => w_msg.id = n_got
    /\ w_pc \in {"get", "take"} => (w_hist = NoHist /\ ~WorkerInFlight)

\* k_msgq_get hands the Worker the oldest message, and only once the
\* transition of the message before has given the semaphore and gone through
\* its callback.
C19_TakesOldest ==
    n_got' # n_got =>
       /\ n_got' = n_got + 1
       /\ w_pc = "get"
       /\ w_hist = NoHist
       /\ w_msg' = conn_mgr_msgq[1]
       /\ w_msg'.id = n_got'
       /\ conn_mgr_msgq' = Tail(conn_mgr_msgq)

\* A message is added to the queue at its end only.
C19_PutsLast ==
    n_put' # n_put =>
       /\ n_put' = n_put + 1
       /\ Len(conn_mgr_msgq') = Len(conn_mgr_msgq) + 1
       /\ SubSeq(conn_mgr_msgq', 1, Len(conn_mgr_msgq)) = conn_mgr_msgq
       /\ conn_mgr_msgq'[Len(conn_mgr_msgq')].id = n_put'

\* C19: the Worker processes the accepted messages one at a time, in the
\* order k_msgq_put accepted them, whichever callback sent them; it takes a
\* message only after the transition of the one before is committed.
C19_FifoOneAtATime ==
    /\ []C19_QueueInOrder
    /\ [][C19_TakesOldest]_vars
    /\ [][C19_PutsLast]_vars

\* The Worker has committed the second of three messages while the third
\* waits in the queue.
C19_Witness ==
    /\ w_pc = "cb"
    /\ w_msg.id = 2
    /\ n_put = 3
    /\ Len(conn_mgr_msgq) = 1
    /\ conn_mgr_msgq[1].id = 3
    /\ conn_mgr_msgq[1].event # w_msg.event

(* -------------------------------- C20 ---------------------------------- *)
QueueFull == Len(conn_mgr_msgq) = CONN_MGR_MAX_MSG(max_conn)
\* The stack may fire a callback: they are registered and the run has
\* notifications left.
MayNotify == registered /\ n_events < ev_budget

\* A callback that fires on a full queue leaves the queue, the count of
\* accepted messages, conn_mgr and the Worker as they are; on a queue with
\* room it appends its message.
C20_SendStep ==
    n_events' # n_events =>
       IF QueueFull
       THEN /\ conn_mgr_msgq' = conn_mgr_msgq
            /\ n_put' = n_put
            /\ UNCHANGED <<stateVars, workerVars, n_got>>
       ELSE /\ Len(conn_mgr_msgq') = Len(conn_mgr_msgq) + 1
            /\ n_put' = n_put + 1
            /\ UNCHANGED <<stateVars, workerVars, n_got>>

\* The queue never holds more than 2 * CONFIG_BT_MAX_CONN messages, and what
\* it holds stays in the order it was accepted.
C20_QueueBounded ==
    /\ Len(conn_mgr_msgq) <= CONN_MGR_MAX_MSG(max_conn)
    /\ \A i \in 1 .. Len(conn_mgr_msgq) : conn_mgr_msgq[i].id = n_got + i

\* The callbacks never wait: each can run to its end whatever the queue holds.
C20_NeverWaits ==
    MayNotify => (ENABLED cb_conn_connected /\ ENABLED cb_conn_disconnected
                  /\ ENABLED cb_conn_recycled)

\* C20: sending an event never suspends the callback; on a queue that holds
\* 2 * CONFIG_BT_MAX_CONN messages the new message is discarded, the queue
\* and conn_mgr are unchanged, and the queued messages are still processed in
\* the order they were accepted.
C20_FullQueueDrops ==
    /\ [][C20_SendStep]_vars
    /\ []C20_QueueBounded
    /\ []C20_NeverWaits

\* A message was dropped on a full queue and the Worker has since committed
\* the last message accepted before it.
C20_Witness ==
    /\ n_put < n_events
    /\ n_put = CONN_MGR_MAX_MSG(max_conn)
    /\ w_pc = "cb"
    /\ w_msg.id = n_put
    /\ conn_mgr_msgq = <<>>

(* -------------------------------- C21 ---------------------------------- *)
\* The n-th message accepted by k_msgq_put has been processed: the Worker
\* took it and its transition has given the semaphore.
Processed(n) ==
    \/ n_got > n
    \/ n_got = n /\ w_pc \in {"cb", "loop", "get"}

\* A call that took the semaphore gives it once before it returns.
C21_CallReleases ==
    \A t \in Threads :
      /\ c_pc[t] = "ret" => c_hist[t].gave = c_hist[t].took
      /\ c_pc[t] \in {"cb", "ret"} /\ c_rc[t] # EBUSY => c_hist[t].gave = 1
      /\ c_pc[t] = "idle" => c_hist[t] = NoHist

\* A call never waits for the semaphore: from idle its first step can always
\* be taken, and without the semaphore it leads to the return of -EBUSY.
C21_CallNeverWaits ==
    \A t \in Threads :
      (c_pc[t] = "idle" /\ MayCall(t)) => ENABLED AdvStartAcquire(t)

C22_SecondInitStep ==
    (i_pc = "done" /\ i_pc' # "done") =>
       /\ registered
       /\ i_pc' = "ret"
       /\ i_rc' = EEXIST
       /\ UNCHANGED <<cfgVars, registered, stateVars, queueVars, workerVars,
                      callerVars, peerVars, fifoVars, ghostVars>>

\* The return of -EEXIST changes nothing but the position of the caller.
C22_SecondInitReturn ==
    (i_pc = "ret" /\ i_rc = EEXIST /\ i_pc' # i_pc) =>
       /\ i_pc' = "done"
       /\ UNCHANGED <<cfgVars, registered, stateVars, queueVars, workerVars,
                      callerVars, peerVars, fifoVars, ghostVars>>

\* Between the two, the calling thread is not in bme68x_esp_gap_adv_start
\* and has not invoked bt_le_adv_start, and the consumer thread created by the
\* first call is the one running.
C22_SecondInitIdle ==
    (i_pc = "ret" /\ i_rc = EEXIST) =>
       /\ registered
       /\ w_pc # "off"
       /\ c_pc[InitThread] = "idle"
       /\ c_hist[InitThread] = NoHist

\* C22: bme68x_esp_gap_init called with the connection callbacks registered
\* already returns -EEXIST and has no other effect: flags, conn_avail, the
\* callback, the semaphore, the queue and the consumer thread are as they
\* were, and bt_le_adv_start is not invoked.
C22_SecondInitRejected ==
    /\ [][C22_SecondInitStep]_vars
    /\ [][C22_SecondInitReturn]_vars
    /\ []C22_SecondInitIdle

\* A second call returns -EEXIST while the Worker is in a transition and
\* conn_mgr no longer holds the state conn_manager_init seeded.
C22_Witness ==
    /\ i_pc = "ret"
    /\ i_rc = EEXIST
    /\ WorkerInFlight
    /\ Pair(flags, conn_avail) # Pair(cfg_flags, max_conn)

(* -------------------------------- C23 ---------------------------------- *)
\* The first call of bme68x_esp_gap_init is in progress or about to return.
FirstInit == i_pc \in {"registered", "adv", "ret"} /\ i_rc # EEXIST
\* The bme68x_esp_gap_adv_start of bme68x_esp_gap_init has given the
\* semaphore with a result other than 0.
InitAttemptFailed ==
    i_pc = "adv" /\ c_pc[InitThread] = "cb" /\ c_rc[InitThread] # RC_OK

\* C23: the first bme68x_esp_gap_init seeds flags without a state bit and
\* conn_avail = CONFIG_BT_MAX_CONN, and starts the consumer thread; without
\* auto-resume it returns 0 and does not invoke bt_le_adv_start; with
\* auto-resume it calls bme68x_esp_gap_adv_start once and returns its result,
\* and when that call fails it has committed the error bit set with
\* conn_avail = CONFIG_BT_MAX_CONN.
C23_FirstInit ==
    /\ (w_pc = "off") <=> (i_pc \in {"start", "registered"})
    /\ (i_pc = "adv" /\ c_pc[InitThread] = "idle" /\ n_got = 0) =>
          /\ flags = cfg_flags
          /\ ~AdvBit(flags) /\ ~ConnBit(flags) /\ ~ErrBit(flags)
          /\ conn_avail = max_conn
          /\ state_lock = 1
    /\ (FirstInit /\ i_pc = "ret" /\ ~AutoBit(cfg_flags)) =>
          /\ i_rc = RC_OK
          /\ c_hist[InitThread] = NoHist
    /\ (FirstInit /\ i_pc = "ret" /\ AutoBit(cfg_flags)) => i_rc # RC_NONE
    /\ InitAttemptFailed =>
          /\ c_hist[InitThread].adv_calls = 1
          /\ ErrBit(c_hist[InitThread].wrote[1])
          /\ ~AdvBit(c_hist[InitThread].wrote[1])
          /\ c_hist[InitThread].wrote[2] = max_conn

(* -------------------------------- C24 ---------------------------------- *)
\* bme68x_ess_update_* is about to return from an update it accepted, having
\* found notifications enabled and read the condition c.
UpdateEvaluated(c) ==
    /\ upd.pc = "ret"
    /\ upd.rc = RC_OK
    /\ upd.ccc # 0
    /\ upd.condition = c

\* C24: with the trigger condition ES_TRIGGER_INACTIVE and notifications
\* enabled by a peer, every update of the value is notified.
C24_InactiveNotifiesAlways ==
    UpdateEvaluated(ES_TRIGGER_INACTIVE) => upd.notify

(* -------------------------------- C25 ---------------------------------- *)
\* The values the claim has rejected: a temperature below -27315 other than
\* 0x8000, a humidity above 10000 other than 0xFFFF.
C25_OutOfRange(v) ==
    \/ ess_chrc = "temperature" /\ v < -27315 /\ v # -32768
    \/ ess_chrc = "humidity" /\ v > 10000 /\ v # 65535

\* The call of bme68x_ess_update_*: a value out of range leaves chrc->value
\* as it was and goes to the return of -EINVAL, any other value is stored.
C25_CallStep ==
    (upd.pc = "idle" /\ upd'.pc # "idle") =>
       IF C25_OutOfRange(upd'.arg)
       THEN upd'.pc = "ret" /\ upd'.rc = EINVAL /\ value' = value
       ELSE value' = upd'.arg /\ upd'.rc # EINVAL

\* At its return: -EINVAL for the values out of range and only for them, with
\* no notification; 0 for all others, notified or not, with the value stored.
C25_Return ==
    upd.pc = "ret" =>
       IF C25_OutOfRange(upd.arg)
       THEN upd.rc = EINVAL /\ ~upd.notify /\ ~upd.stored /\ upd.ccc = 0
       ELSE upd.rc = RC_OK /\ upd.stored /\ value = upd.arg

StepsRun == <<q_hist.control, q_hist.trigger, q_hist.data, q_hist.steps>>
SomeStepNegative == \E i \in 1 .. 4 : StepsRun[i] # NOT_RUN /\ StepsRun[i][1] < 0
EveryStepZero == \A i \in 1 .. 4 : StepsRun[i] = <<0>>

\* The loop condition lets bme68x_iaq_run return on a negative ret only.
C26_LeaveStep ==
    (q_pc = "top" /\ q_pc' = "returned") => q_ret < 0

\* bme68x_iaq_run has returned: a step of the last iteration was negative.
C26_ReturnedOnError ==
    q_pc = "returned" => SomeStepNegative

\* The handler is called at most once per iteration, after four steps that
\* returned 0 and a sample with an output.
C26_HandlerGuarded ==
    /\ q_hist.handler_calls \in {0, 1}
    /\ q_hist.handler_calls = 1 => EveryStepZero /\ q_hist.cnt_outputs >= 1

\* C26: bme68x_iaq_run returns only after BSEC control, the measurement
\* trigger, the data read or the BSEC algorithm step has reported a negative
\* status, positive statuses do not end the loop, and the output handler is
\* invoked only in iterations where every step returned 0 and the sample
\* carries at least one output.
C26_RunsUntilError ==
    /\ [][C26_LeaveStep]_vars
    /\ []C26_ReturnedOnError
    /\ []C26_HandlerGuarded

\* bme68x_iaq_run returns in its third iteration, the one where the data
\* read fails: the two before it have not ended the loop.
C26_Witness ==
    /\ q_pc = "returned"
    /\ q_iter = 3
    /\ q_hist.data = <<-1>>

(* -------------------------------- C27 ---------------------------------- *)
\* The flags f2 are f with the two bits conn_mgr_adv_start decides set as
\* the outcome err of bt_le_adv_start requires, the other bits as in f.
C27_AsStartAdvertising(f, f2, err) ==
    /\ ErrBit(f2) = err
    /\ AdvBit(f2) = ~err
    /\ ConnBit(f2) = ConnBit(f)
    /\ AutoBit(f2) = AutoBit(f)

\* The step after the dispatch on the event, the semaphore held: with the
\* advertising bit clear, auto-resume configured and conn_avail above 0 in
\* the values the dispatch produced, bt_le_adv_start is invoked once and the
\* flags follow its outcome; otherwise it is not invoked and the flags stay.
C27_TailStep ==
    (w_pc = "auto" /\ w_pc' # "auto") =>
       /\ state_lock = 0 /\ state_lock' = 0
       /\ w_hist.adv_calls = 0
       /\ w_conn_avail' = w_conn_avail
       /\ w_pc' = "commit_flags"
       /\ IF ~AdvBit(w_flags) /\ AutoBit(w_flags) /\ w_conn_avail > 0
          THEN /\ w_hist'.adv_calls = 1
               /\ C27_AsStartAdvertising(w_flags, w_flags', w_hist'.adv_err)
          ELSE /\ w_hist'.adv_calls = 0
               /\ w_flags' = w_flags

\* Past that step the transition goes on whatever the outcome: bt_le_adv_start
\* is not invoked again, the commit, the release and the callback are the
\* next steps, and what is committed is the pair the tail left.
C27_RestOfTransition ==
    /\ w_pc \in {"commit_flags", "commit_avail", "give", "cb"} =>
          w_hist.adv_calls \in {0, 1}
    /\ w_pc = "commit_flags" => ENABLED WorkerCommitFlags
    /\ w_pc = "commit_avail" => ENABLED WorkerCommitAvail /\ flags = w_flags
    /\ w_pc = "give" => ENABLED WorkerGive
    /\ w_pc = "cb" =>
          /\ ENABLED WorkerCallback
          /\ w_hist.wrote = Pair(w_flags, w_conn_avail)
          /\ w_hist.gave = 1
    /\ w_pc = "loop" => w_hist.cb_calls = (IF cb_gap_state_changed THEN 1 ELSE 0)

\* C27: at the tail of every Worker transition, the semaphore held,
\* bt_le_adv_start is invoked exactly once if and only if the advertising bit
\* is clear, auto-resume is configured and conn_avail is above 0 in the
\* values after the dispatch; its outcome sets the flags as
\* bme68x_esp_gap_adv_start does, and a failure leaves the rest of the
\* transition as it is: the state is committed and the callback invoked.
C27_AutoResumeAtTail ==
    /\ [][C27_TailStep]_vars
    /\ []C27_RestOfTransition

\* The auto-resume at the tail of a disconnection has failed; the error bit
\* is committed and the registered callback is about to be invoked.
C27_Witness ==
    /\ w_pc = "cb"
    /\ w_msg.event = CONN_MGR_EVT_DISCONNECTION
    /\ w_hist.adv_calls = 1
    /\ w_hist.adv_err
    /\ ErrBit(flags) /\ ~AdvBit(flags)
    /\ cb_gap_state_changed

(* -------------------------------- C28 ---------------------------------- *)
\* The Worker has taken the semaphore for a disconnection: the reference of
\* the connection is released once, conn_avail is as read, and the connected
\* bit is cleared when the conn_avail read, plus one, is CONFIG_BT_MAX_CONN,
\* and as read otherwise. The other bits are as read.
C28_DispatchStep ==
    (w_pc = "take" /\ w_pc' # "take" /\ w_msg.event = CONN_MGR_EVT_DISCONNECTION) =>
       /\ refs' = [refs EXCEPT ![w_msg.conn] = refs[w_msg.conn] - 1]
       /\ w_hist'.unrefs = 1
       /\ w_conn_avail' = conn_avail
       /\ ConnBit(w_flags') = (IF conn_avail + 1 = max_conn
                               THEN FALSE ELSE ConnBit(flags))
       /\ AdvBit(w_flags') = AdvBit(flags)
       /\ ErrBit(w_flags') = ErrBit(flags)
       /\ AutoBit(w_flags') = AutoBit(flags)

\* Up to the commit of a disconnection: the reference is not touched again,
\* the local conn_avail and connected bit stay as the dispatch left them.
C28_UntilCommit ==
    (WorkerInFlight /\ w_msg.event = CONN_MGR_EVT_DISCONNECTION
                    /\ w_pc \in {"auto", "commit_flags", "commit_avail", "give"}) =>
       /\ w_hist.unrefs = 1
       /\ w_conn_avail = InAvail(w_hist)
       /\ ConnBit(w_flags) = (IF InAvail(w_hist) + 1 = max_conn
                              THEN FALSE ELSE ConnBit(InFlags(w_hist)))

\* What the transition of a disconnection has committed.
C28_Committed ==
    (w_pc = "cb" /\ w_msg.event = CONN_MGR_EVT_DISCONNECTION) =>
       /\ w_hist.unrefs = 1
       /\ w_hist.wrote[2] = InAvail(w_hist)
       /\ ConnBit(w_hist.wrote[1]) = (IF InAvail(w_hist) + 1 = max_conn
                                      THEN FALSE ELSE ConnBit(InFlags(w_hist)))

C29_SlotsStep ==
    /\ (w_pc = "commit_avail" /\ w_pc' = "give") =>
          conn_avail' = conn_avail
            + (CASE w_msg.event = CONN_MGR_EVT_CONNECTION -> -1
                 [] w_msg.event = CONN_MGR_EVT_CONN_RECYCLED -> 1
                 [] OTHER -> 0)
    /\ (w_pc # "commit_avail" /\ i_pc # "registered") => conn_avail' = conn_avail

\* What a transition has committed is CONFIG_BT_MAX_CONN, minus the
\* connections processed, plus the recycled slots processed.
C29_SlotsAtCommit ==
    w_pc = "cb" =>
       w_hist.wrote[2] = max_conn - processed.connections + processed.recycled

\* C29: conn_avail changes only in Worker transitions and by exactly one per
\* event: minus one per connection processed, plus one per recycled slot
\* processed, never for a disconnection or a call of
\* bme68x_esp_gap_adv_start; at every commit conn_avail is
\* CONFIG_BT_MAX_CONN - connections processed + recycled slots processed.
C29_SlotsCounted ==
    /\ [][C29_SlotsStep]_vars
    /\ []C29_SlotsAtCommit

(* -------------------------------- C30 ---------------------------------- *)
\* The update is about to evaluate a condition that has an operand with an
\* operand that another write stored, or that the write of the condition
\* has not stored yet.
TornSetting ==
    /\ upd.pc = "eval"
    /\ ~NoOperand(upd.condition)
    /\ upd.oper_by # upd.cond_by

\* C30: for every interleaving of a write request with an update of the
\* value, the condition and the operand the update evaluates were stored by
\* the same write to the ES Trigger Setting (or by bme68x_ess_init), never a
\* condition of one write with the operand of another or of a write still
\* in progress.
C30_ConsistentSetting == ~TornSetting

(* -------------------------------- C31 ---------------------------------- *)
\* No write request is being handled: every write accepted so far is done.
WritesDone == gw.pc \in {"idle", "ret"}
\* The trigger is a fixed interval and a peer has notifications enabled.
PeriodicWanted ==
    trigger_setting.condition = ES_TRIGGER_FIXED_TIME /\ ccc_notify # 0

\* C31: after any sequence of CCC changes and accepted writes to the ES
\* Trigger Setting, the timer is running if and only if the condition is
\* ES_TRIGGER_FIXED_TIME and ccc_notify is not 0, and a running timer has the
\* stored operand, in seconds, as its period.
C31_TimerFollowsSetting ==
    WritesDone =>
       /\ trigger_timer.running <=> PeriodicWanted
       /\ trigger_timer.running =>
             trigger_timer.period = OperandSeconds(trigger_setting.operand)

(* -------------------------------- C32 ---------------------------------- *)
\* The accesses of the call in progress are in the order of the source:
\* write_state writes the blob first and the length only after a successful
\* blob write; delete_state deletes the length first and the blob only after
\* a status of 0 or -ENOENT; read_state returns 0 only after both elements
\* were read, the blob with the size the length element holds.
NvsOrdered ==
    /\ nv.op = "write" /\ nv.log # <<>> =>
          /\ nv.log[1].elem = "blob"
          /\ Len(nv.log) = 2 => nv.log[1].rc = RC_OK /\ nv.log[2].elem = "len"
    /\ nv.op = "delete" /\ nv.log # <<>> =>
          /\ nv.log[1].elem = "len"
          /\ Len(nv.log) = 2 => BlobDeletable(nv.log[1].rc) /\ nv.log[2].elem = "blob"
    /\ nv.op = "read" /\ nv.pc = "ret" /\ nv.ret = RC_OK =>
          /\ Len(nv.log) = 2
          /\ nvs_len # ABSENT /\ nvs_blob = nvs_len
          /\ nv.out_len = nvs_len

\* C32: the length element only ever describes an existing blob: in every
\* reachable state of the file system, at every step of write_state,
\* delete_state and read_state, a STATE_LEN element that exists comes with
\* a STATE_BLOB element that exists, and the calls access the two elements
\* in the order the claim gives.
C32_LenDescribesBlob ==
    /\ NvsOrdered
    /\ nvs_len # ABSENT => nvs_blob # ABSENT

(* -------------------------------- C33 ---------------------------------- *)
\* The step in which transition x passes the callback of
\* conn_mgr_release_state with a callback registered: x is a thread of
\* Threads in bme68x_esp_gap_adv_start, or the Worker.
C33_Delivers(x) ==
    /\ cb_gap_state_changed
    /\ IF x = WorkerId
       THEN w_pc = "cb" /\ w_pc' # "cb"
       ELSE c_pc[x] = "cb" /\ c_pc'[x] # "cb"

\* C33: state-changed callbacks are delivered in the order in which the
\* transitions were committed: the transition that invokes the callback is
\* the one that released the lock first among those that have released it
\* and not yet invoked theirs, so no snapshot is delivered after the
\* snapshot of a later transition.
C33_CallbacksInCommitOrder ==
    [][\A x \in Threads \cup {WorkerId} :
          C33_Delivers(x) => Head(undelivered) = x]_vars

(* -------------------------------- C34 ---------------------------------- *)
\* What the transitions that assign conn_mgr.flags in this step have done.
C34_Committing ==
    {c_hist[t] : t \in {u \in Threads : c_pc[u] = "commit_flags" /\ c_pc'[u] = "commit_avail"}}
      \cup (IF w_pc = "commit_flags" /\ w_pc' = "commit_avail" THEN {w_hist} ELSE {})

\* The error bit rises in conn_mgr.flags only with a bt_le_adv_start that
\* failed, the advertising bit being clear; the advertising bit rises only
\* with a bt_le_adv_start that succeeded, the error bit being cleared.
C34_BitsStep ==
    /\ ErrBit(flags') /\ ~ErrBit(flags) =>
          /\ ~AdvBit(flags')
          /\ \E h \in C34_Committing : h.adv_calls = 1 /\ h.adv_err
    /\ AdvBit(flags') /\ ~AdvBit(flags) =>
          /\ ~ErrBit(flags')
          /\ \E h \in C34_Committing : h.adv_calls = 1 /\ ~h.adv_err

\* C34: in every committed state the advertising bit and the error bit are
\* never both set; the error bit is set only by a failed advertise-start
\* attempted while the advertising bit is clear, and the advertising bit is
\* set only by a successful advertise-start, which clears the error bit.
C34_AdvAndErrExclusive ==
    /\ [](~(AdvBit(flags) /\ ErrBit(flags)))
    /\ [][C34_BitsStep]_vars

\* A call of bme68x_esp_gap_adv_start found the error bit set, its
\* bt_le_adv_start succeeded, and it has committed the advertising bit
\* without the error bit.
C34_Witness ==
    \E t \in Threads :
       /\ c_pc[t] = "cb"
       /\ ErrBit(InFlags(c_hist[t]))
       /\ c_hist[t].adv_calls = 1 /\ ~c_hist[t].adv_err
       /\ AdvBit(flags) /\ ~ErrBit(flags)

(* -------------------------------- C35 ---------------------------------- *)
\* C35: in every committed state, if the advertising bit is set then
\* conn_avail > 0: whenever no transition is between its two assignments
\* to conn_mgr, flags with the advertising bit comes with a conn_avail
\* other than 0.
C35_AdvertisingHasSlot ==
    (\A t \in Threads : c_pc[t] # "commit_avail") /\ w_pc # "commit_avail"
       => (AdvBit(flags) => conn_avail > 0)

(* -------------------------------- C36 ---------------------------------- *)
\* The configuration bits of flags (0x0000ffff).
CfgBits(f) == f % CFG_MASK_END
\* flags without the advertising, connected and error bits.
C36_Frame(f) ==
    ClearFlag(ClearFlag(ClearFlag(f, BME68X_GAP_STATE_ADV_CONN),
                        BME68X_GAP_STATE_CONNECTED),
              BME68X_GAP_STATE_ENETDOWN)
\* conn_manager_init has seeded conn_mgr.
C36_Seeded == i_pc \notin {"start", "registered"}

\* C36: the configuration bits of conn_mgr.flags hold the value given at
\* initialisation in every state from conn_manager_init on, and no step of
\* the Worker or of bme68x_esp_gap_adv_start changes a bit of
\* conn_mgr.flags other than the advertising bit, the connected bit and the
\* error bit.
C36_ConfigurationBitsKept ==
    /\ [](C36_Seeded => CfgBits(flags) = cfg_flags)
    /\ [][C36_Seeded => C36_Frame(flags') = C36_Frame(flags)]_vars

\* With auto-resume configured, a failed bt_le_adv_start and a connection
\* have been committed: the error bit and the connected bit are set next to
\* the configuration bit.
C36_Witness ==
    /\ C36_Seeded
    /\ AutoBit(cfg_flags) /\ AutoBit(flags)
    /\ ErrBit(flags) /\ ConnBit(flags)

(* -------------------------------- C37 ---------------------------------- *)
\* The call of thread t took the early exit of bme68x_esp_gap_adv_start:
\* -EADDRINUSE, or -ECONNREFUSED without a call of bt_le_adv_start.
C37_EarlyExit(t) ==
    \/ c_rc[t] = EADDRINUSE
    \/ c_rc[t] = ECONNREFUSED /\ c_hist[t].adv_calls = 0

\* C37: with a callback registered, a call of bme68x_esp_gap_adv_start that
\* took the semaphore invokes it once before it returns, the calls returning
\* -EADDRINUSE or -ECONNREFUSED for want of a slot included, and those hand
\* it the pair they read, which is the pair they committed; a call returning
\* -EBUSY invokes nothing.
C37_CallbackOncePerCall ==
    \A t \in Threads :
       /\ c_pc[t] = "ret" /\ c_rc[t] = EBUSY =>
             c_hist[t].took = 0 /\ c_hist[t].cb_calls = 0
       /\ c_pc[t] = "ret" /\ c_rc[t] # EBUSY =>
             /\ c_hist[t].took = 1
             /\ cb_gap_state_changed => c_hist[t].cb_calls = 1
       /\ c_pc[t] = "cb" /\ C37_EarlyExit(t) =>
             /\ c_hist[t].cb_calls = 0
             /\ c_hist[t].wrote = c_hist[t].in
             /\ CallbackArgs(c_flags[t], c_conn_avail[t], flags, conn_avail)
                  = c_hist[t].in

\* A call has returned -EADDRINUSE after invoking the callback once.
C37_Witness ==
    /\ cb_gap_state_changed
    /\ \E t \in Threads :
          /\ c_pc[t] = "ret"
          /\ c_rc[t] = EADDRINUSE
          /\ c_hist[t].cb_calls = 1

(* -------------------------------- C38 ---------------------------------- *)
\* The bme68x_esp_gap_adv_start called by bme68x_esp_gap_init is about to
\* return -EBUSY.
C38_InitBusy ==
    i_pc = "adv" /\ c_pc[InitThread] = "ret" /\ c_rc[InitThread] = EBUSY

\* That call has released the lock with 0 or with the failure of
\* bt_le_adv_start.
C38_InitResult ==
    i_pc = "adv" /\ c_pc[InitThread] = "cb" =>
       \/ c_rc[InitThread] = RC_OK
       \/ c_hist[InitThread].adv_calls = 1 /\ c_hist[InitThread].adv_err

\* Before conn_manager_init the consumer thread does not exist: no message
\* was taken from the queue and no event was processed.
C38_NothingBeforeSeeding ==
    i_pc \in {"start", "registered"} =>
       w_pc = "off" /\ n_got = 0 /\ processed = NoneProcessed

\* C38: a first bme68x_esp_gap_init with auto-resume configured never fails
\* with -EBUSY: the Worker does not hold state_lock when the call takes it,
\* so the result is 0 or the failure of bt_le_adv_start; and the Worker
\* processes no event before flags, conn_avail and the semaphore are seeded.
C38_FirstInitNeverBusy ==
    /\ ~C38_InitBusy
    /\ C38_InitResult
    /\ C38_NothingBeforeSeeding

====
